---- MODULE Spec2Model ----
(***************************************************************************)
(* Conversation-state synchronization engine of "Another I".              *)
(*                                                                         *)
(* The model follows the Home component (the folder collection, the       *)
(* active-conversation reference, the loading flag and the handlers that  *)
(* replace the collection) and the three server routes the send-message   *)
(* handler awaits (chat, summarize, title).  Every handler is one action: *)
(* the code between two awaits runs without interleaving on the UI event  *)
(* loop, and every setFolders updater is a pure function of the previous  *)
(* collection.                                                             *)
(***************************************************************************)
EXTENDS Integers, Sequences, FiniteSets, TLC

VARIABLES
    folders,                \* useState<Folder[]>
    activeConversationId,   \* useState<string | null>
    isLoading,              \* useState(false)
    aiSettings,             \* useAISettings().settings
    now,                    \* the value Date.now() returns
    send,                   \* the suspended handleSendMessage invocation
    titleTasks,             \* the suspended background title requests
    sent,                   \* how many times handleSendMessage was called
    result,                 \* ImportDialog: useState<ImportResult | null>
    parsedConversations,    \* ImportDialog: useState<Conversation[]>
    pendingFiles,           \* ImportDialog: the files handleFileSelect is reading
    selectedFolder,         \* ImportDialog: useState(folders[0]?.id || '')
    download,               \* ExportDialog: what handleExport handed to downloadFile
    vendorRequests,         \* the requests the server routes issued to an LLM vendor
    routeResponse,          \* what the server route answered to the request in flight
    storage,                \* localStorage: the item under STORAGE_KEY
    isLoaded,               \* Home: isLoadedRef.current
    availableModels,        \* useAISettings: useState<ModelInfo[]>
    isLoadingModels,        \* useAISettings: useState(false), the loading flag
    modelFetches,           \* useAISettings: the suspended fetchModels invocations
    modelReturns            \* useAISettings: what the fetchModels invocations returned

\* the state of the import and export dialogs
dialogVars == <<result, parsedConversations, pendingFiles, selectedFolder, download>>

\* the state of the server routes
routeVars == <<vendorRequests, routeResponse>>

\* the state of the load and save effects
persistVars == <<storage, isLoaded>>

\* the state of the useAISettings hook
modelVars == <<availableModels, isLoadingModels, modelFetches, modelReturns>>

\* the state outside the React state of the Home component
outsideVars == <<routeVars, persistVars, modelVars>>

vars == <<folders, activeConversationId, isLoading, aiSettings, now, send, titleTasks, sent,
          dialogVars, outsideVars>>

----------------------------------------------------------------------------
(* Bounds of the model *)

MaxClock == 2       \* Date.now() takes the values 1..MaxClock
MaxFolders == 2     \* folders are created while fewer than this exist
MaxConvs == 2       \* conversations are created or imported up to this many
MaxSends == 1       \* handleSendMessage is called up to this many times
MaxTurns == 2       \* a chat of up to this many sends, one after the other
MaxTranscript == 31 \* a stored conversation holds up to this many messages
MaxTitleShape == 3  \* a vendor's title is made of up to this many pieces
MaxRun == 21        \* the longest piece of a vendor's title, in characters
MaxFetches == 3         \* calls of fetchModels
MaxDocs == 3        \* a listed folder holds up to this many conversations
MaxNodes == 4       \* the mapping of an external conversation holds up to this many nodes
MaxItems == 2       \* an export file holds up to this many conversations
MaxReads == 2       \* handleFileSelect reads up to this many files at a time
MaxExportMsgs == 2   \* an exported conversation holds up to this many messages

(* Program constants *)

TitleLimit == 30    \* content.length > 30 ? content.slice(0, 30) + '...'
ChatMaxMessages == 20        \* POST /api/chat: const MAX_MESSAGES = 20
SummarizeMaxMessages == 30   \* POST /api/summarize: const MAX_MESSAGES = 30
AiTitleLimit == 20           \* POST /api/title: title.substring(0, 20)
CannedReplyCount == 5        \* getMockResponse: responses.length

NULL == <<>>                 \* null, where an id is expected
NoSettings == "none"         \* aiSettings === null: demo mode

----------------------------------------------------------------------------
(* Text values.  A text is a sequence of characters, so that slice and     *)
(* length mean what they mean in the code.                                 *)

NewConversationTitle == <<"N", "E", "W">>            \* '新しい会話'
ApologyText == <<"s", "o", "r", "r", "y">>           \* 'すみません、接続に問題が発生しました。...'
ReplyText == <<"r", "e", "p", "l", "y">>             \* the provider's completion
MockText == <<"m", "o", "c", "k">>                   \* getMockResponse(messages)
ApiErrorText == <<"a", "p", "i", "e", "r", "r">>     \* '⚠️ API エラーが発生しました: ...'
Ellipsis == <<".", ".", ".">>

Contents == { <<"h", "i">> }                         \* what the user types (trimmed, non-empty)

Truncate(content) ==
    IF Len(content) > TitleLimit
    THEN SubSeq(content, 1, TitleLimit) \o Ellipsis
    ELSE content

\* documentContent values
EmptyDoc == "empty"                  \* ''
RemoteSummary == "remoteSummary"     \* the provider's summary
FallbackSummaryEmpty == "fallbackSummaryOfNoMessages"   \* generateFallbackSummary([])
FallbackSummaryDemo == "fallbackSummaryOfMessages"      \* generateFallbackSummary(messages)
EditedDoc == "edited"                \* what the user types in the editor
ImportedDoc == "importedDoc"         \* generateDocumentContent(messages, title)

AiTitle == <<"A", "I">>              \* the title the title route returns
ImportedTitle == <<"T">>

TagIds == { "tag-1" }
FolderNames == { "renamed" }
ExternalIds == { "x", "y" }

Clock == 1..MaxClock

ConvIdOf(t) == <<"conv", t>>
ImportedIdOf(x) == <<"imported", x>>
FolderIdOf(t) == <<"folder", t>>

\* every id a caller can pass, whether or not something has it
ConvIdArgs == { ConvIdOf(t) : t \in Clock } \cup { ImportedIdOf(x) : x \in ExternalIds }
FolderIdArgs == { FolderIdOf(t) : t \in 0..MaxClock }

----------------------------------------------------------------------------
(* Helpers over sequences *)

Range(s) == { s[i] : i \in DOMAIN s }

RECURSIVE FlatConversations(_)
FlatConversations(fs) ==
    IF fs = <<>> THEN <<>>
    ELSE Head(fs).conversations \o FlatConversations(Tail(fs))

AllConversations == FlatConversations(folders)

ConversationIds(fs) == { c.id : c \in Range(FlatConversations(fs)) }

FolderIds(fs) == { f.id : f \in Range(fs) }

TotalConversations(fs) == Len(FlatConversations(fs))

\* folders.flatMap(f => f.conversations).find(c => c.id === id):
\* <<>> for undefined, <<conv>> for the conversation found
FindConversation(fs, id) ==
    LET all == FlatConversations(fs)
        hits == { i \in DOMAIN all : all[i].id = id }
    IN  IF hits = {} THEN <<>>
        ELSE << all[CHOOSE i \in hits : \A j \in hits : i <= j] >>

\* arr.filter(keep)
RECURSIVE SelectSeqBy(_, _)
SelectSeqBy(s, keep) ==
    IF s = <<>> THEN <<>>
    ELSE IF Head(s) \in keep
         THEN <<Head(s)>> \o SelectSeqBy(Tail(s), keep)
         ELSE SelectSeqBy(Tail(s), keep)

WithoutConversation(convs, convId) ==
    SelectSeqBy(convs, { c \in Range(convs) : c.id # convId })

\* prev.map(folder => ({...folder, conversations: folder.conversations.map(f)}))
\* where f is given as a function over the conversations of fs
MapConversations(fs, f) ==
    [i \in DOMAIN fs |->
        [fs[i] EXCEPT !.conversations =
            [j \in DOMAIN fs[i].conversations |-> f[fs[i].conversations[j]]]]]

----------------------------------------------------------------------------
(* State after construction *)

InitialFolder ==
    [id |-> FolderIdOf(0), name |-> "conversations",
     conversations |-> <<>>, isExpanded |-> TRUE]

NoMessage == [id |-> <<>>, role |-> "none", content |-> <<>>, timestamp |-> 0]

IdleSend ==
    [pc |-> "idle", convId |-> NULL, content |-> <<>>, prior |-> <<>>,
     userMessage |-> NoMessage, settings |-> NoSettings, finalMessages |-> <<>>]

\* no route has been called, nothing is stored and the effects of the mount
\* have run, no model list has been asked for
OutsideInit ==
    /\ vendorRequests = <<>>
    /\ routeResponse = NULL
    /\ storage = NULL
    /\ isLoaded = TRUE
    /\ availableModels = <<>>
    /\ isLoadingModels = FALSE
    /\ modelFetches = <<>>
    /\ modelReturns = <<>>

Init ==
    /\ folders = <<InitialFolder>>
    /\ activeConversationId = NULL
    /\ isLoading = FALSE
    /\ aiSettings \in { NoSettings, "configured" }
    /\ now = 1
    /\ send = IdleSend
    /\ titleTasks = <<>>
    /\ sent = 0
    /\ result = NULL
    /\ parsedConversations = <<>>
    /\ pendingFiles = <<>>
    /\ selectedFolder = InitialFolder.id
    /\ download = NULL
    /\ OutsideInit

----------------------------------------------------------------------------
(* Conversation Store: the setFolders updaters of the Home component *)

NewConversationRecord(id, title, t) ==
    [id |-> id, title |-> title, messages |-> <<>>, documentContent |-> EmptyDoc,
     tags |-> <<>>, isPinned |-> FALSE, createdAt |-> t, updatedAt |-> t]

\* the updater of handleNewConversation and of the implicit creation in
\* handleSendMessage: the id is looked up in the first folder only
CreateConversation(fs, newConv) ==
    IF \E c \in Range(fs[1].conversations) : c.id = newConv.id
    THEN fs
    ELSE [fs EXCEPT ![1].conversations = <<newConv>> \o @]

CreateFolder(fs, t) ==
    Append(fs, [id |-> FolderIdOf(t), name |-> "new folder",
                conversations |-> <<>>, isExpanded |-> TRUE])

RenameFolder(fs, folderId, newName) ==
    [i \in DOMAIN fs |-> IF fs[i].id = folderId THEN [fs[i] EXCEPT !.name = newName] ELSE fs[i]]

DeleteFolder(fs, folderId) ==
    IF Len(fs) <= 1 THEN fs
    ELSE SelectSeqBy(fs, { f \in Range(fs) : f.id # folderId })

DeleteConversation(fs, convId) ==
    [i \in DOMAIN fs |->
        [fs[i] EXCEPT !.conversations = WithoutConversation(@, convId)]]

\* the conversation the map of handleConversationMove leaves in `conversation`:
\* the one found in the last folder that holds the id (<<>> for null)
MovedConversation(fs, convId) ==
    LET holders == { i \in DOMAIN fs : \E c \in Range(fs[i].conversations) : c.id = convId }
        last == CHOOSE i \in holders : \A j \in holders : j <= i
        convs == fs[last].conversations
        first == CHOOSE k \in DOMAIN convs :
                    /\ convs[k].id = convId
                    /\ \A m \in DOMAIN convs : convs[m].id = convId => k <= m
    IN  IF holders = {} THEN <<>> ELSE << convs[first] >>

MoveConversation(fs, convId, targetFolderId) ==
    LET conversation == MovedConversation(fs, convId)
        updated == DeleteConversation(fs, convId)
    IN  IF conversation # <<>>
        THEN [i \in DOMAIN updated |->
                IF updated[i].id = targetFolderId
                THEN [updated[i] EXCEPT !.conversations = conversation \o @]
                ELSE updated[i]]
        ELSE updated

ImportConversations(fs, conversations, targetFolderId) ==
    [i \in DOMAIN fs |->
        IF fs[i].id # targetFolderId THEN fs[i]
        ELSE [fs[i] EXCEPT !.conversations = conversations \o @]]

\* the slip of an updater that forgets to compare the id
TogglePinEverywhere(fs, convId) ==
    MapConversations(fs, [c \in Range(FlatConversations(fs)) |->
        [c EXCEPT !.isPinned = ~c.isPinned]])

TogglePin(fs, convId) ==
    MapConversations(fs, [c \in Range(FlatConversations(fs)) |->
        IF c.id = convId THEN [c EXCEPT !.isPinned = ~c.isPinned] ELSE c])

\* the slip of an attach that does not look for the id
AddTagAlways(fs, convId, tag) ==
    MapConversations(fs, [c \in Range(FlatConversations(fs)) |->
        IF c.id # convId THEN c ELSE [c EXCEPT !.tags = Append(@, tag)]])

AddTag(fs, convId, tag) ==
    MapConversations(fs, [c \in Range(FlatConversations(fs)) |->
        IF c.id # convId THEN c
        ELSE IF \E t \in Range(c.tags) : t.id = tag.id THEN c
        ELSE [c EXCEPT !.tags = Append(@, tag)]])

RemoveTag(fs, convId, tagId) ==
    MapConversations(fs, [c \in Range(FlatConversations(fs)) |->
        IF c.id = convId
        THEN [c EXCEPT !.tags = SelectSeqBy(@, { t \in Range(c.tags) : t.id # tagId })]
        ELSE c])

\* the slip of a merge that leaves a text the user has edited
SetDocumentContentUnlessEdited(fs, convId, content, t) ==
    MapConversations(fs, [c \in Range(FlatConversations(fs)) |->
        IF c.id = convId /\ c.documentContent # EditedDoc
        THEN [c EXCEPT !.documentContent = content, !.updatedAt = t]
        ELSE c])

SetDocumentContent(fs, convId, content, t) ==
    MapConversations(fs, [c \in Range(FlatConversations(fs)) |->
        IF c.id = convId
        THEN [c EXCEPT !.documentContent = content, !.updatedAt = t]
        ELSE c])

SetTitle(fs, convId, title) ==
    MapConversations(fs, [c \in Range(FlatConversations(fs)) |->
        IF c.id = convId THEN [c EXCEPT !.title = title] ELSE c])

\* the slip of a send that dispatches without the optimistic append
AppendUserMessageNever(fs, convId, userMessage, content, t) == fs

\* the optimistic append of the user message
AppendUserMessage(fs, convId, userMessage, content, t) ==
    MapConversations(fs, [c \in Range(FlatConversations(fs)) |->
        IF c.id # convId THEN c
        ELSE [c EXCEPT !.messages = Append(@, userMessage),
                       !.title = IF c.title = NewConversationTitle /\ content # <<>>
                                 THEN Truncate(content) ELSE c.title,
                       !.updatedAt = t]])

\* the slip of a merge that inserts the conversation it does not find
MergeCompletionOrInsert(fs, convId, finalMessages, t) ==
    IF convId \in ConversationIds(fs)
    THEN MapConversations(fs, [c \in Range(FlatConversations(fs)) |->
            IF c.id # convId THEN c
            ELSE [c EXCEPT !.messages = finalMessages, !.updatedAt = t]])
    ELSE [fs EXCEPT ![1].conversations =
            << [NewConversationRecord(convId, NewConversationTitle, t)
                   EXCEPT !.messages = finalMessages] >> \o @]

\* the merge of a resolved completion: messages: finalMessages
MergeCompletion(fs, convId, finalMessages, t) ==
    MapConversations(fs, [c \in Range(FlatConversations(fs)) |->
        IF c.id # convId THEN c
        ELSE [c EXCEPT !.messages = finalMessages, !.updatedAt = t]])

\* the slip of a fallback that never reaches the conversation
AppendErrorMessageNowhere(fs, convId, errorMessage) == fs

\* the error fallback: messages: [...conv.messages, errorMessage]
AppendErrorMessage(fs, convId, errorMessage) ==
    MapConversations(fs, [c \in Range(FlatConversations(fs)) |->
        IF c.id = convId THEN [c EXCEPT !.messages = Append(@, errorMessage)] ELSE c])

----------------------------------------------------------------------------
(* Imported conversations, as parseChatGPTExport hands them to handleImport *)

ImportedConversation(x) ==
    [id |-> ImportedIdOf(x), title |-> ImportedTitle,
     messages |-> << [id |-> <<"ext", x>>, role |-> "user",
                      content |-> <<"q">>, timestamp |-> 0] >>,
     documentContent |-> ImportedDoc, tags |-> <<>>, isPinned |-> FALSE,
     createdAt |-> 0, updatedAt |-> 0]

ImportBatches ==
    { <<ImportedConversation("x")>>,
      <<ImportedConversation("x"), ImportedConversation("y")>> }

Tags == { [id |-> t, name |-> "tag", color |-> "blue"] : t \in TagIds }

\* the tags of the tag picker: handleCreateTag names a tag `tag-${Date.now()}`,
\* so two tags made in the same millisecond share the id and differ in name
TagPaletteIds == { "tag-1", "tag-2" }
TagPalette == { [id |-> t, name |-> n, color |-> "blue"] :
                   t \in TagPaletteIds, n \in { "tag", "other" } }

----------------------------------------------------------------------------
(* Export Parser: parseChatGPTExport, on the conversations.json of ChatGPT *)

Whitespace == { " ", "\n" }

RECURSIVE TrimStart(_)
TrimStart(text) ==
    IF text = <<>> THEN <<>>
    ELSE IF Head(text) \in Whitespace THEN TrimStart(Tail(text)) ELSE text

RECURSIVE TrimEnd(_)
TrimEnd(text) ==
    IF text = <<>> THEN <<>>
    ELSE IF text[Len(text)] \in Whitespace
         THEN TrimEnd(SubSeq(text, 1, Len(text) - 1)) ELSE text

\* String.prototype.trim
Trim(text) == TrimEnd(TrimStart(text))

\* parts.join('\n')
RECURSIVE JoinParts(_)
JoinParts(parts) ==
    IF parts = <<>> THEN <<>>
    ELSE IF Len(parts) = 1 THEN parts[1]
    ELSE parts[1] \o <<"\n">> \o JoinParts(Tail(parts))

\* a node of conv.mapping.  hasMessage: the node has a message with content and
\* parts; hasAuthor: the message has an author
MappingNode(hasMessage, hasAuthor, id, role, parts, createTime) ==
    [hasMessage |-> hasMessage, hasAuthor |-> hasAuthor, id |-> id, role |-> role,
     parts |-> parts, create_time |-> createTime]

UserNode == MappingNode(TRUE, TRUE, "m-user", "user", << <<"a">> >>, 2)
AssistantNode == MappingNode(TRUE, TRUE, "m-assistant", "assistant", << <<"b">>, <<>> >>, 1)
SystemNode == MappingNode(TRUE, TRUE, "m-system", "system", << <<"s">> >>, 0)
BlankNode == MappingNode(TRUE, TRUE, "m-blank", "user", << <<" ">>, <<>> >>, 3)
RootNode == MappingNode(FALSE, FALSE, "root", "", <<>>, 0)
NoAuthorNode == MappingNode(TRUE, FALSE, "m-noauthor", "", << <<"a">> >>, 1)

NodeKinds == { UserNode, AssistantNode, SystemNode, BlankNode, RootNode, NoAuthorNode }

\* .filter(node => node.message?.content?.parts?.length)
RECURSIVE NodesWithParts(_)
NodesWithParts(nodes) ==
    IF nodes = <<>> THEN <<>>
    ELSE IF Head(nodes).hasMessage /\ Len(Head(nodes).parts) > 0
         THEN <<Head(nodes)>> \o NodesWithParts(Tail(nodes))
         ELSE NodesWithParts(Tail(nodes))

\* .sort((a, b) => (a.message?.create_time || 0) - (b.message?.create_time || 0)),
\* a stable sort: a node goes before the first sorted node of a later time
RECURSIVE InsertByTime(_, _)
InsertByTime(sorted, node) ==
    IF sorted = <<>> THEN <<node>>
    ELSE IF node.create_time - Head(sorted).create_time < 0
         THEN <<node>> \o sorted
         ELSE <<Head(sorted)>> \o InsertByTime(Tail(sorted), node)

RECURSIVE SortByTime(_)
SortByTime(nodes) ==
    IF nodes = <<>> THEN <<>>
    ELSE InsertByTime(SortByTime(SubSeq(nodes, 1, Len(nodes) - 1)), nodes[Len(nodes)])

\* the slip of a loop that does not look at the role
RECURSIVE ExtractMessagesOfAnyRole(_)
ExtractMessagesOfAnyRole(nodes) ==
    IF nodes = <<>> THEN <<>>
    ELSE LET msg == Head(nodes)
             content == Trim(JoinParts(msg.parts))
         IN  IF content = <<>>
             THEN ExtractMessagesOfAnyRole(Tail(nodes))
             ELSE << [id |-> msg.id, role |-> msg.role, content |-> content,
                      timestamp |-> msg.create_time] >>
                     \o ExtractMessagesOfAnyRole(Tail(nodes))

\* the loop over messageNodes: the messages pushed
RECURSIVE ExtractMessages(_)
ExtractMessages(nodes) ==
    IF nodes = <<>> THEN <<>>
    ELSE LET msg == Head(nodes)
             content == Trim(JoinParts(msg.parts))
         IN  IF msg.role \notin { "user", "assistant" } \/ content = <<>>
             THEN ExtractMessages(Tail(nodes))
             ELSE << [id |-> msg.id, role |-> msg.role, content |-> content,
                      timestamp |-> msg.create_time] >> \o ExtractMessages(Tail(nodes))

\* the body of the try block throws: Object.values(conv.mapping) of a
\* conversation without mapping, msg.author.role of a message without author
ParseThrows(conv) ==
    \/ ~conv.hasMapping
    \/ \E node \in Range(NodesWithParts(conv.mapping)) : ~node.hasAuthor

UntitledConversation == <<"U", "N", "T">>            \* '無題の会話'

\* what one pass of the for loop adds to `conversations`
ParseConversation(conv) ==
    IF ParseThrows(conv) THEN <<>>
    ELSE LET messages == ExtractMessages(SortByTime(NodesWithParts(conv.mapping)))
         IN  IF Len(messages) > 0
             THEN << [id |-> ImportedIdOf(conv.id),
                      title |-> IF conv.title = <<>> THEN UntitledConversation
                                ELSE conv.title,
                      messages |-> messages, documentContent |-> ImportedDoc,
                      tags |-> <<>>, isPinned |-> FALSE,
                      createdAt |-> conv.create_time, updatedAt |-> conv.update_time] >>
             ELSE <<>>

RECURSIVE parseChatGPTExport(_)
parseChatGPTExport(data) ==
    IF data = <<>> THEN <<>>
    ELSE ParseConversation(Head(data)) \o parseChatGPTExport(Tail(data))

----------------------------------------------------------------------------
(* Explorer: the documents of a folder, as listed *)

\* explorerFolders: the documents the Home component hands to the Explorer
Documents(folder) ==
    [j \in DOMAIN folder.conversations |->
        LET conv == folder.conversations[j]
        IN  [id |-> conv.id,
             title |-> IF conv.title = <<>> THEN NewConversationTitle ELSE conv.title,
             isPinned |-> conv.isPinned, tags |-> conv.tags]]

\* docs.filter(doc => { if (seen.has(doc.id)) return false; seen.add(doc.id); return true })
RECURSIVE UniqueDocs(_, _)
UniqueDocs(docs, seen) ==
    IF docs = <<>> THEN <<>>
    ELSE IF Head(docs).id \in seen
         THEN UniqueDocs(Tail(docs), seen)
         ELSE <<Head(docs)>> \o UniqueDocs(Tail(docs), seen \cup { Head(docs).id })

\* the comparator of the sort
ComparePinned(a, b) ==
    IF a.isPinned /\ ~b.isPinned THEN -1
    ELSE IF ~a.isPinned /\ b.isPinned THEN 1
    ELSE 0

\* Array.prototype.sort is stable: an element goes before the first element of
\* the sorted part that the comparator puts after it
RECURSIVE InsertByCompare(_, _)
InsertByCompare(sorted, doc) ==
    IF sorted = <<>> THEN <<doc>>
    ELSE IF ComparePinned(doc, Head(sorted)) < 0
         THEN <<doc>> \o sorted
         ELSE <<Head(sorted)>> \o InsertByCompare(Tail(sorted), doc)

RECURSIVE SortByCompare(_)
SortByCompare(docs) ==
    IF docs = <<>> THEN <<>>
    ELSE InsertByCompare(SortByCompare(SubSeq(docs, 1, Len(docs) - 1)), docs[Len(docs)])

\* the slip of a listing that sorts without removing the repeated ids
getSortedDocsKeepingRepeats(docs) == SortByCompare(docs)

getSortedDocs(docs) == SortByCompare(UniqueDocs(docs, {}))

----------------------------------------------------------------------------
(* Handlers of the Home component *)

\* time passes between two handlers
Tick ==
    /\ now < MaxClock
    /\ now' = now + 1
    /\ UNCHANGED <<folders, activeConversationId, isLoading, aiSettings, send, titleTasks, sent, dialogVars, outsideVars>>

handleConversationSelect(convId) ==
    /\ convId \in ConversationIds(folders)
    /\ activeConversationId' = convId
    /\ UNCHANGED <<folders, isLoading, aiSettings, now, send, titleTasks, sent, dialogVars, outsideVars>>

\* updated[0].conversations of an empty collection throws: the updater has no
\* result there, and the action is not enabled
handleNewConversation ==
    /\ folders # <<>>
    /\ TotalConversations(folders) < MaxConvs
    /\ folders' = CreateConversation(folders,
                      NewConversationRecord(ConvIdOf(now), NewConversationTitle, now))
    /\ activeConversationId' = ConvIdOf(now)
    /\ UNCHANGED <<isLoading, aiSettings, now, send, titleTasks, sent, dialogVars, outsideVars>>

handleFolderCreate ==
    /\ Len(folders) < MaxFolders
    /\ folders' = CreateFolder(folders, now)
    /\ UNCHANGED <<activeConversationId, isLoading, aiSettings, now, send, titleTasks, sent, dialogVars, outsideVars>>

handleFolderRename(folderId, newName) ==
    /\ folders' = RenameFolder(folders, folderId, newName)
    /\ UNCHANGED <<activeConversationId, isLoading, aiSettings, now, send, titleTasks, sent, dialogVars, outsideVars>>

\* prev.find(f => f.id === folderId): <<>> for undefined
FindFolder(fs, folderId) ==
    LET hits == { i \in DOMAIN fs : fs[i].id = folderId }
    IN  IF hits = {} THEN <<>>
        ELSE << fs[CHOOSE i \in hits : \A j \in hits : i <= j] >>

handleFolderDelete(folderId) ==
    /\ folders' = DeleteFolder(folders, folderId)
    /\ activeConversationId' =
          LET folderToDelete == FindFolder(folders, folderId)
          IN  IF /\ Len(folders) > 1
                 /\ folderToDelete # <<>>
                 /\ \E c \in Range(folderToDelete[1].conversations) :
                       c.id = activeConversationId
              THEN NULL ELSE activeConversationId
    /\ UNCHANGED <<isLoading, aiSettings, now, send, titleTasks, sent, dialogVars, outsideVars>>

handleConversationDelete(convId) ==
    /\ activeConversationId' = IF convId = activeConversationId THEN NULL
                               ELSE activeConversationId
    /\ folders' = DeleteConversation(folders, convId)
    /\ UNCHANGED <<isLoading, aiSettings, now, send, titleTasks, sent, dialogVars, outsideVars>>

handleConversationMove(convId, targetFolderId) ==
    /\ folders' = MoveConversation(folders, convId, targetFolderId)
    /\ UNCHANGED <<activeConversationId, isLoading, aiSettings, now, send, titleTasks, sent, dialogVars, outsideVars>>

\* handleImportConfirm calls onImport only with a non-empty list
handleImport(conversations, targetFolderId) ==
    /\ Len(conversations) > 0
    /\ TotalConversations(folders) + Len(conversations) <= MaxConvs
    /\ folders' = ImportConversations(folders, conversations, targetFolderId)
    /\ activeConversationId' = conversations[1].id
    /\ UNCHANGED <<isLoading, aiSettings, now, send, titleTasks, sent, dialogVars, outsideVars>>

handleTogglePin(convId) ==
    /\ folders' = TogglePin(folders, convId)
    /\ UNCHANGED <<activeConversationId, isLoading, aiSettings, now, send, titleTasks, sent, dialogVars, outsideVars>>

handleAddTag(convId, tag) ==
    /\ folders' = AddTag(folders, convId, tag)
    /\ UNCHANGED <<activeConversationId, isLoading, aiSettings, now, send, titleTasks, sent, dialogVars, outsideVars>>

handleRemoveTag(convId, tagId) ==
    /\ folders' = RemoveTag(folders, convId, tagId)
    /\ UNCHANGED <<activeConversationId, isLoading, aiSettings, now, send, titleTasks, sent, dialogVars, outsideVars>>

handleContentChange(content) ==
    /\ activeConversationId # NULL
    /\ folders' = SetDocumentContent(folders, activeConversationId, content, now)
    /\ UNCHANGED <<activeConversationId, isLoading, aiSettings, now, send, titleTasks, sent, dialogVars, outsideVars>>

----------------------------------------------------------------------------
(* The server routes, as the client sees them: the decoded response body   *)
(* and response.ok.  `provider` is what the vendor call does.              *)

ProviderOutcomes == { "ok", "error" }
TitleProviderOutcomes == { "ok", "empty", "error" }
TransportOutcomes == { "ok", "fail" }

\* POST /api/chat: demo mode without settings; a provider error is caught and
\* returned with status 200 as the message to display
ChatRoutePOST(settings, provider) ==
    IF settings = NoSettings
    THEN [ok |-> TRUE, message |-> MockText, isDemo |-> TRUE]
    ELSE IF provider = "ok"
         THEN [ok |-> TRUE, message |-> ReplyText, isDemo |-> FALSE]
         ELSE [ok |-> TRUE, message |-> ApiErrorText, isDemo |-> TRUE]

\* POST /api/summarize: a provider error is caught and returned with status 500
\* and the fallback summary of no messages
SummarizeRoutePOST(settings, provider) ==
    IF settings = NoSettings
    THEN [ok |-> TRUE, summary |-> FallbackSummaryDemo, isDemo |-> TRUE]
    ELSE IF provider = "ok"
         THEN [ok |-> TRUE, summary |-> RemoteSummary, isDemo |-> FALSE]
         ELSE [ok |-> FALSE, summary |-> FallbackSummaryEmpty, isDemo |-> TRUE]

\* POST /api/title: the cleaned title, or status 500
TitleRoutePOST(provider) ==
    IF provider = "ok" THEN [ok |-> TRUE, title |-> AiTitle]
    ELSE IF provider = "empty" THEN [ok |-> TRUE, title |-> <<>>]
    ELSE [ok |-> FALSE, title |-> <<>>]

----------------------------------------------------------------------------
(* Conversation Orchestrator: handleSendMessage, cut at its awaits *)

\* the slip of reading the active id when the call settles
MergeTargetActive(task) == activeConversationId

\* const convIdToUpdate = currentConvId: the id every merge of the invocation uses
MergeTarget(task) == task.convId

\* currentConv?.messages || []
MessagesOf(found) == IF found = <<>> THEN <<>> ELSE found[1].messages

\* the slip of a chat panel that submits while a send is in flight
handleSendMessageWhileLoading(content) ==
    LET creating == activeConversationId = NULL
        currentConvId == IF creating THEN ConvIdOf(now) ELSE activeConversationId
        created == IF creating
                   THEN CreateConversation(folders,
                            NewConversationRecord(currentConvId, Truncate(content), now))
                   ELSE folders
        userMessage == [id |-> <<"msg", now, "user">>, role |-> "user",
                        content |-> content, timestamp |-> now]
        currentConv == FindConversation(folders, currentConvId)
        prior == MessagesOf(currentConv)
    IN  /\ creating => folders # <<>>
        /\ creating => TotalConversations(folders) < MaxConvs
        /\ sent' = sent + 1
        /\ folders' = AppendUserMessage(created, currentConvId, userMessage, content, now)
        /\ activeConversationId' = currentConvId
        /\ isLoading' = TRUE
        /\ send' = [pc |-> "awaitCompletion", convId |-> currentConvId,
                    content |-> content, prior |-> prior, userMessage |-> userMessage,
                    settings |-> aiSettings, finalMessages |-> <<>>]
        /\ UNCHANGED <<aiSettings, now, titleTasks, dialogVars, outsideVars>>

\* ChatPanel.handleSubmit calls onSendMessage only while isLoading is false.
\* The handler runs up to its first await: the implicit creation, the
\* optimistic append, setIsLoading(true) and the dispatch of the completion.
handleSendMessage(content) ==
    LET creating == activeConversationId = NULL
        currentConvId == IF creating THEN ConvIdOf(now) ELSE activeConversationId
        created == IF creating
                   THEN CreateConversation(folders,
                            NewConversationRecord(currentConvId, Truncate(content), now))
                   ELSE folders
        userMessage == [id |-> <<"msg", now, "user">>, role |-> "user",
                        content |-> content, timestamp |-> now]
        currentConv == FindConversation(folders, currentConvId)
        prior == MessagesOf(currentConv)
    IN  /\ ~isLoading
        /\ creating => folders # <<>>
        /\ creating => TotalConversations(folders) < MaxConvs
        /\ sent' = sent + 1
        /\ folders' = AppendUserMessage(created, currentConvId, userMessage, content, now)
        /\ activeConversationId' = currentConvId
        /\ isLoading' = TRUE
        /\ send' = [pc |-> "awaitCompletion", convId |-> currentConvId,
                    content |-> content, prior |-> prior, userMessage |-> userMessage,
                    settings |-> aiSettings, finalMessages |-> <<>>]
        /\ UNCHANGED <<aiSettings, now, titleTasks, dialogVars, outsideVars>>

\* fetch('/api/chat') settles: the merge of the assistant message and the
\* dispatch of the summary, or the error fallback
ResolveCompletionWith(transport, data) ==
    /\ send.pc = "awaitCompletion"
    /\ IF transport = "ok"
       THEN LET aiMessage == [id |-> <<"msg", now, "ai">>, role |-> "assistant",
                              content |-> data.message, timestamp |-> now]
                finalMessages == send.prior \o <<send.userMessage, aiMessage>>
            IN  /\ folders' = MergeCompletion(folders, MergeTarget(send), finalMessages, now)
                /\ send' = [send EXCEPT !.pc = "awaitSummary",
                                        !.finalMessages = finalMessages]
                /\ UNCHANGED isLoading
       ELSE LET errorMessage == [id |-> <<"msg", now, "error">>, role |-> "assistant",
                                 content |-> ApologyText, timestamp |-> now]
            IN  /\ folders' = AppendErrorMessage(folders, MergeTarget(send), errorMessage)
                /\ send' = IdleSend
                /\ isLoading' = FALSE
    /\ UNCHANGED <<activeConversationId, aiSettings, now, titleTasks, sent, dialogVars, outsideVars>>

\* the slip of a setIsLoading(false) that is the last statement of the try
\* block: the error fallback leaves the flag set
ResolveCompletionStillLoading(transport, provider) ==
    /\ send.pc = "awaitCompletion"
    /\ IF transport = "ok"
       THEN LET data == ChatRoutePOST(send.settings, provider)
                aiMessage == [id |-> <<"msg", now, "ai">>, role |-> "assistant",
                              content |-> data.message, timestamp |-> now]
                finalMessages == send.prior \o <<send.userMessage, aiMessage>>
            IN  /\ folders' = MergeCompletion(folders, MergeTarget(send), finalMessages, now)
                /\ send' = [send EXCEPT !.pc = "awaitSummary",
                                        !.finalMessages = finalMessages]
       ELSE LET errorMessage == [id |-> <<"msg", now, "error">>, role |-> "assistant",
                                 content |-> ApologyText, timestamp |-> now]
            IN  /\ folders' = AppendErrorMessage(folders, MergeTarget(send), errorMessage)
                /\ send' = IdleSend
    /\ UNCHANGED <<activeConversationId, isLoading, aiSettings, now, titleTasks, sent,
                   dialogVars, outsideVars>>

\* data is what POST /api/chat answers
ResolveCompletion(transport, provider) ==
    ResolveCompletionWith(transport, ChatRoutePOST(send.settings, provider))

\* fetch('/api/summarize') settles: the merge of the summary, the dispatch of
\* the background title request, setIsLoading(false)
ResolveSummaryWith(transport, summaryData) ==
    /\ send.pc = "awaitSummary"
    /\ folders' =
          IF transport = "ok"
          THEN SetDocumentContent(folders, MergeTarget(send), summaryData.summary, now)
          ELSE folders
    /\ titleTasks' =
          IF Len(send.prior) = 0 /\ send.settings # NoSettings
          THEN Append(titleTasks, [convId |-> send.convId, message |-> send.content])
          ELSE titleTasks
    /\ send' = IdleSend
    /\ isLoading' = FALSE
    /\ UNCHANGED <<activeConversationId, aiSettings, now, sent, dialogVars, outsideVars>>

\* the slip of a title request that is dispatched for every send
ResolveSummaryThenTitle(transport, provider) ==
    /\ send.pc = "awaitSummary"
    /\ folders' =
          IF transport = "ok"
          THEN SetDocumentContent(folders, MergeTarget(send),
                                  SummarizeRoutePOST(send.settings, provider).summary, now)
          ELSE folders
    /\ titleTasks' = Append(titleTasks, [convId |-> send.convId, message |-> send.content])
    /\ send' = IdleSend
    /\ isLoading' = FALSE
    /\ UNCHANGED <<activeConversationId, aiSettings, now, sent, dialogVars, outsideVars>>

\* summaryData is what POST /api/summarize answers
ResolveSummary(transport, provider) ==
    ResolveSummaryWith(transport, SummarizeRoutePOST(send.settings, provider))

\* fetch('/api/title') settles
ResolveTitleWith(i, transport, response) ==
    /\ i \in DOMAIN titleTasks
    /\ folders' =
          IF transport = "ok" /\ response.ok /\ response.title # <<>>
          THEN SetTitle(folders, MergeTarget(titleTasks[i]), response.title)
          ELSE folders
    /\ titleTasks' = [j \in 1..(Len(titleTasks) - 1) |->
                         IF j < i THEN titleTasks[j] ELSE titleTasks[j + 1]]
    /\ UNCHANGED <<activeConversationId, isLoading, aiSettings, now, send, sent, dialogVars, outsideVars>>

\* the slip of a title merge that, like the summary merge, does not look at
\* response.ok or at the title it got
ResolveTitleUnchecked(i, transport, provider) ==
    /\ i \in DOMAIN titleTasks
    /\ folders' =
          IF transport = "ok"
          THEN SetTitle(folders, MergeTarget(titleTasks[i]), TitleRoutePOST(provider).title)
          ELSE folders
    /\ titleTasks' = [j \in 1..(Len(titleTasks) - 1) |->
                         IF j < i THEN titleTasks[j] ELSE titleTasks[j + 1]]
    /\ UNCHANGED <<activeConversationId, isLoading, aiSettings, now, send, sent, dialogVars, outsideVars>>

\* response is what POST /api/title answers
ResolveTitle(i, transport, provider) ==
    ResolveTitleWith(i, transport, TitleRoutePOST(provider))

----------------------------------------------------------------------------
(* The server routes in detail: what each handler does with the request it *)
(* receives, what it asks of the LLM vendor and what it answers.           *)

\* allMessages.map(m => ({ role: m.role, content: m.content }))
WireMessages(messages) ==
    [i \in DOMAIN messages |-> [role |-> messages[i].role, content |-> messages[i].content]]

\* the body of the request handleSendMessage posts to /api/chat
ChatRequestBody(task) ==
    [messages |-> WireMessages(task.prior \o <<task.userMessage>>),
     settings |-> task.settings]

\* the body of the request handleSendMessage posts to /api/summarize
SummarizeRequestBody(task) ==
    [messages |-> WireMessages(task.finalMessages), settings |-> task.settings]

\* messages.slice(-n), n > 0
SliceLast(messages, n) ==
    SubSeq(messages, IF Len(messages) > n THEN Len(messages) - n + 1 ELSE 1, Len(messages))

\* the slip of a history that is sent whole
TruncateMessagesNever(messages, maxMessages) == messages

\* messages.length > MAX_MESSAGES ? messages.slice(-MAX_MESSAGES) : messages
TruncateMessages(messages, maxMessages) ==
    IF Len(messages) > maxMessages THEN SliceLast(messages, maxMessages) ELSE messages

\* text.includes(keyword)
Includes(text, keyword) ==
    \E i \in 1..(Len(text) - Len(keyword) + 1) :
        SubSeq(text, i, i + Len(keyword) - 1) = keyword

\* the keywords getMockResponse looks for, one string per character
KeywordWorry == <<"nayami">>
KeywordTrouble == <<"komaru">>
KeywordWork == <<"shi", "goto">>
KeywordPriority == <<"yuu", "sen">>
KeywordOrganize == <<"sei", "ri">>
KeywordSummary == <<"ma", "to", "me">>

\* the three replies a keyword selects, and the replies drawn at random
WorryReply == <<"w", "o", "r", "r", "y">>
WorkReply == <<"w", "o", "r", "k">>
OrganizeReply == <<"o", "r", "g">>
CannedReply(pick) == <<"c", "a", "n", pick>>
CannedReplies == { CannedReply(pick) : pick \in 1..CannedReplyCount }

\* messages.filter(m => m.role === 'user').pop()?.content || ''
LastUserMessage(messages) ==
    LET userMessages == SelectSeqBy(messages, { m \in Range(messages) : m.role = "user" })
    IN  IF userMessages = <<>> THEN <<>> ELSE userMessages[Len(userMessages)].content

\* pick is Math.floor(Math.random() * responses.length) + 1
getMockResponse(messages, pick) ==
    LET lastUserMessage == LastUserMessage(messages)
    IN  IF Includes(lastUserMessage, KeywordWorry) \/ Includes(lastUserMessage, KeywordTrouble)
        THEN WorryReply
        ELSE IF Includes(lastUserMessage, KeywordWork)
                \/ Includes(lastUserMessage, KeywordPriority)
        THEN WorkReply
        ELSE IF Includes(lastUserMessage, KeywordOrganize)
                \/ Includes(lastUserMessage, KeywordSummary)
        THEN OrganizeReply
        ELSE CannedReply(pick)

\* what the vendor call of a route does: it answers, it fails, or the switch
\* on the provider throws before any call
VendorOutcomes == { "ok", "error", "unknownProvider" }

\* the slip of a demo mode that asks the vendor all the same
IsDemoNever(settings) == FALSE

\* !settings?.apiKey
IsDemo(settings) == settings = NoSettings

\* POST /api/chat
POSTChat(pick, vendor) ==
    /\ send.pc = "awaitCompletion"
    /\ IF routeResponse = NULL THEN TRUE ELSE routeResponse.route # "chat"
    /\ LET body == ChatRequestBody(send)
           truncatedMessages == TruncateMessages(body.messages, ChatMaxMessages)
       IN  IF IsDemo(body.settings)
           THEN /\ routeResponse' = [route |-> "chat", ok |-> TRUE, isDemo |-> TRUE,
                                     message |-> getMockResponse(body.messages, pick)]
                /\ UNCHANGED vendorRequests
           ELSE /\ vendorRequests' =
                      IF vendor = "unknownProvider" THEN vendorRequests
                      ELSE Append(vendorRequests,
                                  [route |-> "chat", messages |-> truncatedMessages])
                /\ routeResponse' =
                      IF vendor = "ok"
                      THEN [route |-> "chat", ok |-> TRUE, isDemo |-> FALSE,
                            message |-> ReplyText]
                      ELSE [route |-> "chat", ok |-> TRUE, isDemo |-> TRUE,
                            message |-> ApiErrorText]
    /\ UNCHANGED <<folders, activeConversationId, isLoading, aiSettings, now, send,
                   titleTasks, sent, dialogVars, persistVars, modelVars>>

\* generateFallbackSummary(messages)
generateFallbackSummary(messages) ==
    IF Len(messages) = 0 THEN FallbackSummaryEmpty ELSE FallbackSummaryDemo

\* POST /api/summarize
POSTSummarize(vendor) ==
    /\ send.pc = "awaitSummary"
    /\ routeResponse # NULL
    /\ routeResponse.route = "chat"
    /\ LET body == SummarizeRequestBody(send)
           truncatedMessages == TruncateMessages(body.messages, SummarizeMaxMessages)
       IN  IF IsDemo(body.settings)
           THEN /\ routeResponse' = [route |-> "summarize", ok |-> TRUE, isDemo |-> TRUE,
                                     summary |-> generateFallbackSummary(body.messages)]
                /\ UNCHANGED vendorRequests
           ELSE /\ vendorRequests' =
                      IF vendor = "unknownProvider" THEN vendorRequests
                      ELSE Append(vendorRequests,
                                  [route |-> "summarize", messages |-> truncatedMessages])
                /\ routeResponse' =
                      IF vendor = "ok"
                      THEN [route |-> "summarize", ok |-> TRUE, isDemo |-> FALSE,
                            summary |-> RemoteSummary]
                      ELSE [route |-> "summarize", ok |-> FALSE, isDemo |-> TRUE,
                            summary |-> generateFallbackSummary(<<>>)]
    /\ UNCHANGED <<folders, activeConversationId, isLoading, aiSettings, now, send,
                   titleTasks, sent, dialogVars, persistVars, modelVars>>

\* the characters of a title a vendor answers
Letter == "a"
Blank == " "
LineFeed == "\n"
SingleQuote == "'"
DoubleQuote == "\""
OpenBracket == "kagi-open"       \* the corner bracket that opens
CloseBracket == "kagi-close"     \* the corner bracket that closes
TitleChars == { Letter, Blank, LineFeed, SingleQuote, DoubleQuote, OpenBracket, CloseBracket }

\* the characters of the class the title route removes
StrippedChars == { SingleQuote, DoubleQuote, OpenBracket, CloseBracket, LineFeed }

\* a run of n letters
Run(n) == [i \in 1..n |-> Letter]

\* a piece of a title: one character, or a run of letters
TitlePieces == { <<ch>> : ch \in TitleChars } \cup { Run(MaxRun) }

RECURSIVE Concat(_)
Concat(pieces) ==
    IF pieces = <<>> THEN <<>> ELSE pieces[1] \o Concat(Tail(pieces))

\* the titles a vendor may answer
VendorTitles ==
    { Concat(pieces) : pieces \in UNION { [1..k -> TitlePieces] : k \in 0..MaxTitleShape } }

\* title.replace(/[...]/g, '')
StripTitle(title) == SelectSeqBy(title, Range(title) \ StrippedChars)

\* the slip of a title that is cut but not stripped
CleanTitleUnstripped(title) ==
    LET trimmed == Trim(title)
    IN  IF Len(trimmed) > AiTitleLimit THEN SubSeq(trimmed, 1, AiTitleLimit) ELSE trimmed

\* title.replace(...).trim(), then substring(0, 20) when longer than 20
CleanTitle(title) ==
    LET trimmed == Trim(StripTitle(title))
    IN  IF Len(trimmed) > AiTitleLimit THEN SubSeq(trimmed, 1, AiTitleLimit) ELSE trimmed

\* POST /api/title for the first title request in flight
POSTTitle(vendor, title) ==
    /\ Len(titleTasks) > 0
    /\ routeResponse # NULL
    /\ routeResponse.route = "summarize"
    /\ vendorRequests' =
          IF vendor = "unknownProvider" THEN vendorRequests
          ELSE Append(vendorRequests,
                      [route |-> "title", messages |-> <<titleTasks[1].message>>])
    /\ routeResponse' =
          IF vendor = "ok"
          THEN [route |-> "title", ok |-> TRUE, title |-> CleanTitle(title), raw |-> title]
          ELSE [route |-> "title", ok |-> FALSE, title |-> <<>>, raw |-> <<>>]
    /\ UNCHANGED <<folders, activeConversationId, isLoading, aiSettings, now, send,
                   titleTasks, sent, dialogVars, persistVars, modelVars>>

\* the client receives what the route answered
ReceiveCompletion ==
    /\ routeResponse # NULL
    /\ routeResponse.route = "chat"
    /\ ResolveCompletionWith("ok", routeResponse)

ReceiveSummary ==
    /\ routeResponse # NULL
    /\ routeResponse.route = "summarize"
    /\ ResolveSummaryWith("ok", routeResponse)

ReceiveTitle ==
    /\ routeResponse # NULL
    /\ routeResponse.route = "title"
    /\ ResolveTitleWith(1, "ok", routeResponse)

----------------------------------------------------------------------------
(* Persistence: the save effect writes JSON.stringify(folders) under       *)
(* STORAGE_KEY, the load effect of the mount reads it back.                *)

\* Date.prototype.toJSON: the ISO string of the instant t
IsoString(t) == <<"iso", t>>

\* new Date(isoString): the instant the string denotes
ParseDate(text) == text[2]

\* JSON.stringify of a message, a conversation, the folder collection: every
\* Date becomes its ISO string
StringifyMessage(msg) == [msg EXCEPT !.timestamp = IsoString(@)]

StringifyConversation(conv) ==
    [conv EXCEPT !.createdAt = IsoString(@),
                 !.updatedAt = IsoString(@),
                 !.messages = [i \in DOMAIN @ |-> StringifyMessage(@[i])]]

Stringify(fs) ==
    [i \in DOMAIN fs |->
        [fs[i] EXCEPT !.conversations = [j \in DOMAIN @ |-> StringifyConversation(@[j])]]]

\* what localStorage holds after setItem(STORAGE_KEY, JSON.stringify(folders))
StoredCollection(items) == [kind |-> "array", items |-> items]

\* an item JSON.parse throws on, and one that parses to a value without map
GarbageItem == [kind |-> "garbage", items |-> <<>>]
ObjectItem == [kind |-> "object", items |-> <<>>]

\* { ...msg, timestamp: new Date(msg.timestamp) }
RestoreMessage(msg) == [msg EXCEPT !.timestamp = ParseDate(@)]

\* the slip of a restore that parses the dates and backfills nothing
RestoreConversationAsStored(conv) ==
    [k \in DOMAIN conv |->
        CASE k = "createdAt" -> ParseDate(conv.createdAt)
          [] k = "updatedAt" -> ParseDate(conv.updatedAt)
          [] k = "messages" -> [i \in DOMAIN conv.messages |-> RestoreMessage(conv.messages[i])]
          [] OTHER -> conv[k]]

\* { ...conv, tags: conv.tags || [], isPinned: conv.isPinned || false,
\*   createdAt: new Date(...), updatedAt: new Date(...), messages: ... }
RestoreConversation(conv) ==
    [k \in DOMAIN conv \cup { "tags", "isPinned" } |->
        CASE k = "tags" -> IF "tags" \in DOMAIN conv THEN conv.tags ELSE <<>>
          [] k = "isPinned" -> IF "isPinned" \in DOMAIN conv THEN conv.isPinned ELSE FALSE
          [] k = "createdAt" -> ParseDate(conv.createdAt)
          [] k = "updatedAt" -> ParseDate(conv.updatedAt)
          [] k = "messages" -> [i \in DOMAIN conv.messages |-> RestoreMessage(conv.messages[i])]
          [] OTHER -> conv[k]]

\* parsed.map(folder => ({ ...folder, conversations: folder.conversations.map(...) }))
Restore(items) ==
    [i \in DOMAIN items |->
        [items[i] EXCEPT !.conversations = [j \in DOMAIN @ |-> RestoreConversation(@[j])]]]

\* JSON.parse throws, parsed.map is not a function, or a map of the restore
\* is called on undefined
RestoreThrows(stored) ==
    IF stored.kind # "array" THEN TRUE
    ELSE \E i \in DOMAIN stored.items :
            IF "conversations" \notin DOMAIN stored.items[i] THEN TRUE
            ELSE \E j \in DOMAIN stored.items[i].conversations :
                    "messages" \notin DOMAIN stored.items[i].conversations[j]

\* allConvs.sort((a, b) => b.updatedAt - a.updatedAt)[0].id: the sort is
\* stable, the first of the most recently updated conversations
MostRecentlyUpdated(fs) ==
    LET allConvs == FlatConversations(fs)
        first == CHOOSE i \in DOMAIN allConvs :
                    /\ \A j \in DOMAIN allConvs : allConvs[j].updatedAt <= allConvs[i].updatedAt
                    /\ \A j \in 1..(i - 1) : allConvs[j].updatedAt < allConvs[i].updatedAt
    IN  allConvs[first].id

\* the slip of a catch that empties the collection
AfterFailedLoadEmpty(fs) == <<>>

\* catch (e) { console.error(...) }: the state is as it was
AfterFailedLoad(fs) == fs

\* the load effect of the mount
LoadEffect ==
    /\ ~isLoaded
    /\ isLoaded' = TRUE
    /\ IF storage = NULL
       THEN UNCHANGED <<folders, activeConversationId>>
       ELSE IF RestoreThrows(storage)
       THEN /\ folders' = AfterFailedLoad(folders)
            /\ UNCHANGED activeConversationId
       ELSE LET restored == Restore(storage.items)
            IN  /\ folders' = restored
                /\ activeConversationId' =
                      IF TotalConversations(restored) > 0
                      THEN MostRecentlyUpdated(restored)
                      ELSE activeConversationId
    /\ UNCHANGED <<isLoading, aiSettings, now, send, titleTasks, sent, dialogVars,
                   storage, routeVars, modelVars>>

\* the save effect, when its timeout fires
SaveEffect ==
    /\ isLoaded
    /\ storage' = StoredCollection(Stringify(folders))
    /\ UNCHANGED <<folders, activeConversationId, isLoading, aiSettings, now, send,
                   titleTasks, sent, dialogVars, isLoaded, routeVars, modelVars>>

\* the page is loaded again: the React state is the initial one, localStorage
\* is what it was
Reload ==
    /\ isLoaded
    /\ send.pc = "idle"
    /\ titleTasks = <<>>
    /\ folders' = <<InitialFolder>>
    /\ activeConversationId' = NULL
    /\ isLoaded' = FALSE
    /\ UNCHANGED <<isLoading, aiSettings, now, send, titleTasks, sent, dialogVars,
                   storage, routeVars, modelVars>>

----------------------------------------------------------------------------
(* ImportDialog: handleFileSelect, cut at its await, and the buttons *)

ExternalConversation(id, title, mapping) ==
    [id |-> id, title |-> title, hasMapping |-> TRUE, mapping |-> mapping,
     create_time |-> 0, update_time |-> 0]

\* a conversation record without `mapping`
NoMappingConversation(id) ==
    [id |-> id, title |-> ImportedTitle, hasMapping |-> FALSE, mapping |-> <<>>,
     create_time |-> 0, update_time |-> 0]

Mappings(n) == UNION { [1..k -> NodeKinds] : k \in 0..n }

\* a .json file: text that is not JSON, JSON that is not an array, or an array
JsonFile(kind, data) == [name |-> "json", kind |-> kind, data |-> data]

\* exports of one conversation, with a mapping of up to MaxNodes nodes
OneConversationFiles ==
    { JsonFile("array", << ExternalConversation("x", ImportedTitle, mapping) >>) :
         mapping \in Mappings(MaxNodes) }

\* the conversations of an export of several: at most one node each, an empty
\* title, or no mapping at all
ShortConversations(id) ==
    { ExternalConversation(id, title, mapping) :
         title \in { ImportedTitle, <<>> }, mapping \in Mappings(1) }
       \cup { NoMappingConversation(id) }

SeveralConversationFiles ==
    { JsonFile("array", data) :
         data \in UNION { { d \in [1..n -> UNION { ShortConversations(x) : x \in ExternalIds }] :
                               \A i \in 1..n : d[i].id = IF i = 1 THEN "x" ELSE "y" } :
                          n \in { 0 } \cup 2..MaxItems } }

NotJsonFile == JsonFile("invalid", <<>>)
NotArrayFile == JsonFile("value", <<>>)
WrongNameFile == [name |-> "txt", kind |-> "invalid", data |-> <<>>]

Files == OneConversationFiles \cup SeveralConversationFiles \cup { NotJsonFile, NotArrayFile }

\* the files a user drops while another file is being read
SecondFiles ==
    { WrongNameFile, NotArrayFile,
      JsonFile("array", << ExternalConversation("y", ImportedTitle, <<UserNode>>) >>) }

FailedResult(message) ==
    [success |-> FALSE, imported |-> 0, skipped |-> 0, errors |-> <<message>>]

\* the drop zone is rendered while result is null; the handler runs up to
\* `await file.text()`
handleFileSelect(file) ==
    /\ result = NULL
    /\ Len(pendingFiles) < MaxReads
    /\ IF file.name # "json"
       THEN /\ result' = FailedResult("selectJsonFile")
            /\ UNCHANGED pendingFiles
       ELSE /\ pendingFiles' = Append(pendingFiles, file)
            /\ UNCHANGED result
    /\ UNCHANGED <<folders, activeConversationId, isLoading, aiSettings, now, send,
                   titleTasks, sent, parsedConversations, selectedFolder, download, outsideVars>>

\* file.text() settles: JSON.parse, the array check, the parse and the result
FileRead(i) ==
    /\ i \in DOMAIN pendingFiles
    /\ LET file == pendingFiles[i]
           conversations == parseChatGPTExport(file.data)
       IN  IF file.kind = "invalid"
           THEN /\ result' = FailedResult("jsonSyntaxError")
                /\ UNCHANGED parsedConversations
           ELSE IF file.kind # "array"
           THEN /\ result' = FailedResult("notChatGPTExport")
                /\ UNCHANGED parsedConversations
           ELSE /\ parsedConversations' = conversations
                /\ result' = [success |-> TRUE, imported |-> Len(conversations),
                              skipped |-> Len(file.data) - Len(conversations),
                              errors |-> <<>>]
    /\ pendingFiles' = [j \in 1..(Len(pendingFiles) - 1) |->
                           IF j < i THEN pendingFiles[j] ELSE pendingFiles[j + 1]]
    /\ UNCHANGED <<folders, activeConversationId, isLoading, aiSettings, now, send,
                   titleTasks, sent, selectedFolder, download, outsideVars>>

\* the buttons "another file" and "retry", and the closing of the dialog
resetState ==
    /\ result' = NULL
    /\ parsedConversations' = <<>>
    /\ UNCHANGED <<folders, activeConversationId, isLoading, aiSettings, now, send,
                   titleTasks, sent, pendingFiles, selectedFolder, download, outsideVars>>

\* the folder <select> of the preview: its options are the folders of the
\* collection, and it is rendered with the preview of a successful read
setSelectedFolder(folderId) ==
    /\ result # NULL
    /\ result.success
    /\ Len(parsedConversations) > 0
    /\ folderId \in FolderIds(folders)
    /\ selectedFolder' = folderId
    /\ UNCHANGED <<folders, activeConversationId, isLoading, aiSettings, now, send,
                   titleTasks, sent, result, parsedConversations, pendingFiles, download, outsideVars>>

\* the slip of an import button that is rendered with any result
handleImportConfirmWithAnyResult ==
    /\ result # NULL
    /\ Len(parsedConversations) > 0
    /\ TotalConversations(folders) + Len(parsedConversations) <= MaxConvs
    /\ folders' = ImportConversations(folders, parsedConversations, selectedFolder)
    /\ activeConversationId' = parsedConversations[1].id
    /\ result' = NULL
    /\ parsedConversations' = <<>>
    /\ UNCHANGED <<isLoading, aiSettings, now, send, titleTasks, sent, pendingFiles,
                   selectedFolder, download, outsideVars>>

\* the import button is rendered while result.success; onImport is the
\* handleImport of the Home component
handleImportConfirm ==
    /\ result # NULL
    /\ result.success
    /\ Len(parsedConversations) > 0
    /\ TotalConversations(folders) + Len(parsedConversations) <= MaxConvs
    /\ folders' = ImportConversations(folders, parsedConversations, selectedFolder)
    /\ activeConversationId' = parsedConversations[1].id
    /\ result' = NULL
    /\ parsedConversations' = <<>>
    /\ UNCHANGED <<isLoading, aiSettings, now, send, titleTasks, sent, pendingFiles,
                   selectedFolder, download, outsideVars>>

----------------------------------------------------------------------------
(* ExportDialog: handleExport and generateMarkdown.  A text is a sequence of *)
(* characters; a fixed piece of the template is one element of it.          *)

UserHeading == "## user"            \* '## 💭 ユーザー'
AiHeading == "## ai"                \* '## 🤖 AI'
Rule == "---"
NewLine == "\n"

\* new Date(t).toLocaleString('ja-JP')
LocaleString(t) == <<"date", t>>

\* what conv.messages.forEach adds for one message
MarkdownBlock(msg) ==
    <<(IF msg.role = "user" THEN UserHeading ELSE AiHeading), NewLine, NewLine>>
       \o msg.content \o <<NewLine, NewLine>>

RECURSIVE MarkdownBlocks(_)
MarkdownBlocks(messages) ==
    IF messages = <<>> THEN <<>>
    ELSE MarkdownBlock(Head(messages)) \o MarkdownBlocks(Tail(messages))

generateMarkdown(conv) ==
    <<"# ">> \o conv.title \o <<NewLine, NewLine>>
       \o <<"created: ", LocaleString(conv.createdAt), NewLine>>
       \o <<"updated: ", LocaleString(conv.updatedAt), NewLine, NewLine>>
       \o <<Rule, NewLine, NewLine>>
       \o MarkdownBlocks(conv.messages)

\* texts.join('\n\n---\n\n')
RECURSIVE JoinWithRule(_)
JoinWithRule(texts) ==
    IF texts = <<>> THEN <<>>
    ELSE IF Len(texts) = 1 THEN texts[1]
    ELSE texts[1] \o <<NewLine, NewLine, Rule, NewLine, NewLine>> \o JoinWithRule(Tail(texts))

\* the Markdown of the whole collection
FolderMarkdown(folder) ==
    <<"# ", folder.name, NewLine, NewLine>>
       \o JoinWithRule([j \in DOMAIN folder.conversations |->
                           generateMarkdown(folder.conversations[j])])

\* title.replace(/[^\w\s]/g, ''): the characters of the model that \w matches
WordCharacters ==
    { "a", "b", "e", "h", "i", "l", "p", "r", "y", "A", "E", "I", "N", "T", "W" }

RECURSIVE FilenameStem(_)
FilenameStem(title) ==
    IF title = <<>> THEN <<>>
    ELSE IF Head(title) \in WordCharacters \cup Whitespace
         THEN <<Head(title)>> \o FilenameStem(Tail(title))
         ELSE FilenameStem(Tail(title))

ExportFormats == { "json", "markdown" }
ExportScopes == { "current", "all" }

\* the export button: downloadFile(content, filename, mimeType)
handleExport(format, scope) ==
    LET activeConversation == FindConversation(folders, activeConversationId)
        current == scope = "current" /\ activeConversation # <<>>
        content ==
            IF current
            THEN IF format = "json" THEN <<"JSON", activeConversation[1]>>
                 ELSE generateMarkdown(activeConversation[1])
            ELSE IF format = "json" THEN <<"JSON", folders>>
                 ELSE JoinWithRule([i \in DOMAIN folders |-> FolderMarkdown(folders[i])])
        filename ==
            IF current THEN <<FilenameStem(activeConversation[1].title), now, format>>
            ELSE <<"another-i-export", now, format>>
    IN  /\ download' = [content |-> content, filename |-> filename,
                        mimeType |-> IF format = "json" THEN "application/json"
                                     ELSE "text/markdown"]
        /\ UNCHANGED <<folders, activeConversationId, isLoading, aiSettings, now, send,
                       titleTasks, sent, result, parsedConversations, pendingFiles,
                       selectedFolder, outsideVars>>

----------------------------------------------------------------------------

\* the store handlers, with any id a caller can pass
StoreNext ==
    \/ Tick
    \/ \E convId \in ConvIdArgs : handleConversationSelect(convId)
    \/ handleNewConversation
    \/ handleFolderCreate
    \/ \E folderId \in FolderIdArgs, newName \in FolderNames :
          handleFolderRename(folderId, newName)
    \/ \E folderId \in FolderIdArgs : handleFolderDelete(folderId)
    \/ \E convId \in ConvIdArgs : handleConversationDelete(convId)
    \/ \E convId \in ConvIdArgs, folderId \in FolderIdArgs :
          handleConversationMove(convId, folderId)
    \/ \E batch \in ImportBatches, folderId \in FolderIdArgs : handleImport(batch, folderId)
    \/ \E convId \in ConvIdArgs : handleTogglePin(convId)
    \/ \E convId \in ConvIdArgs, tag \in Tags : handleAddTag(convId, tag)
    \/ \E convId \in ConvIdArgs, tagId \in TagIds : handleRemoveTag(convId, tagId)

StoreSpec == Init /\ [][StoreNext]_vars

\* the send-message lifecycle among the handlers that create, select, edit,
\* import and delete conversations
Next ==
    \/ \E convId \in ConvIdArgs : handleConversationSelect(convId)
    \/ handleNewConversation
    \/ \E convId \in ConvIdArgs : handleConversationDelete(convId)
    \/ \E batch \in ImportBatches, folderId \in FolderIdArgs : handleImport(batch, folderId)
    \/ handleContentChange(EditedDoc)
    \/ \E content \in Contents : sent < MaxSends /\ handleSendMessage(content)
    \/ \E transport \in TransportOutcomes, provider \in ProviderOutcomes :
          ResolveCompletion(transport, provider)
    \/ \E transport \in TransportOutcomes, provider \in ProviderOutcomes :
          ResolveSummary(transport, provider)
    \/ \E i \in 1..MaxSends, transport \in TransportOutcomes,
          provider \in TitleProviderOutcomes : ResolveTitle(i, transport, provider)

Spec == Init /\ [][Next]_vars

\* every external call eventually resolves or rejects: a suspended invocation
\* is resumed
CallsSettle ==
    /\ WF_vars(\E transport \in TransportOutcomes, provider \in ProviderOutcomes :
                  ResolveCompletion(transport, provider))
    /\ WF_vars(\E transport \in TransportOutcomes, provider \in ProviderOutcomes :
                  ResolveSummary(transport, provider))

FairSpec == Init /\ [][Next]_vars /\ CallsSettle

\* a chat: messages are sent one after the other, in a new conversation or in
\* the one selected
ChatNext ==
    \/ \E convId \in ConvIdArgs : handleConversationSelect(convId)
    \/ handleNewConversation
    \/ Tick
    \/ \E content \in Contents : sent < MaxTurns /\ handleSendMessage(content)
    \/ \E transport \in TransportOutcomes, provider \in ProviderOutcomes :
          ResolveCompletion(transport, provider)
    \/ \E transport \in TransportOutcomes, provider \in ProviderOutcomes :
          ResolveSummary(transport, provider)
    \/ \E i \in 1..MaxTurns, transport \in TransportOutcomes,
          provider \in TitleProviderOutcomes : ResolveTitle(i, transport, provider)

ChatSpec == Init /\ [][ChatNext]_vars

\* message k of a stored conversation: the user and the assistant take turns
StoredMessage(k) ==
    [id |-> <<"stored", k>>, role |-> IF k % 2 = 1 THEN "user" ELSE "assistant",
     content |-> <<"m", k>>, timestamp |-> 1]

Transcript(n) == [k \in 1..n |-> StoredMessage(k)]

\* what the user types: with and without a keyword of getMockResponse
RouteContents ==
    { <<"h", "i">>, <<"h">> \o KeywordWorry, KeywordTrouble, KeywordWork \o <<"i">>,
      KeywordPriority, <<"h">> \o KeywordOrganize, KeywordSummary,
      <<"shi", "sen", "ma", "to">> }

\* a conversation of an even number of messages is open, with or without settings
RouteInit ==
    /\ \E n \in 0..MaxTranscript :
          /\ n % 2 = 0
          /\ folders = << [InitialFolder EXCEPT !.conversations =
                             << [NewConversationRecord(ConvIdOf(1), NewConversationTitle, 1)
                                   EXCEPT !.messages = Transcript(n)] >>] >>
    /\ activeConversationId = ConvIdOf(1)
    /\ isLoading = FALSE
    /\ aiSettings \in { NoSettings, "configured" }
    /\ now = MaxClock
    /\ send = IdleSend
    /\ titleTasks = <<>>
    /\ sent = 0
    /\ result = NULL
    /\ parsedConversations = <<>>
    /\ pendingFiles = <<>>
    /\ selectedFolder = InitialFolder.id
    /\ download = NULL
    /\ OutsideInit

\* one send, from the request of the client to the answers of the three routes
RouteNext ==
    \/ \E content \in RouteContents : sent < MaxSends /\ handleSendMessage(content)
    \/ \E pick \in 1..CannedReplyCount, vendor \in VendorOutcomes : POSTChat(pick, vendor)
    \/ ReceiveCompletion
    \/ \E vendor \in VendorOutcomes : POSTSummarize(vendor)
    \/ ReceiveSummary
    \/ \E vendor \in VendorOutcomes, title \in VendorTitles : POSTTitle(vendor, title)
    \/ ReceiveTitle

RouteSpec == RouteInit /\ [][RouteNext]_vars

\* what the user types: a short text, one of exactly TitleLimit characters and
\* one of a character more
DraftContents == { [i \in 1..n |-> "a"] : n \in { 2, TitleLimit, TitleLimit + 1 } }

\* a first message is sent among the handlers that create, select, move and
\* delete conversations and folders
DraftNext ==
    \/ Tick
    \/ \E convId \in ConvIdArgs : handleConversationSelect(convId)
    \/ handleNewConversation
    \/ handleFolderCreate
    \/ \E folderId \in FolderIdArgs : handleFolderDelete(folderId)
    \/ \E convId \in ConvIdArgs : handleConversationDelete(convId)
    \/ \E convId \in ConvIdArgs, folderId \in FolderIdArgs :
          handleConversationMove(convId, folderId)
    \/ \E content \in DraftContents : sent < MaxSends /\ handleSendMessage(content)

DraftSpec == Init /\ [][DraftNext]_vars

\* a conversation as a version without tags and pins stored it
LegacyConversation(t, u) ==
    [id |-> ConvIdOf(t), title |-> ImportedTitle,
     messages |-> << [id |-> <<"msg", t, "user">>, role |-> "user",
                      content |-> <<"q">>, timestamp |-> IsoString(t)] >>,
     documentContent |-> EditedDoc,
     createdAt |-> IsoString(t), updatedAt |-> IsoString(u)]

\* a pinned and tagged conversation as the save effect stores it
TaggedConversation(t, u) ==
    StringifyConversation(
        [id |-> ConvIdOf(t), title |-> AiTitle,
         messages |-> << [id |-> <<"msg", t, "user">>, role |-> "user",
                          content |-> <<"q">>, timestamp |-> t] >>,
         documentContent |-> RemoteSummary,
         tags |-> << CHOOSE tag \in Tags : TRUE >>, isPinned |-> TRUE,
         createdAt |-> t, updatedAt |-> u])

StoredConversations ==
    { LegacyConversation(t, u) : t \in Clock, u \in Clock }
    \cup { TaggedConversation(t, u) : t \in Clock, u \in Clock }

\* the conversations of a stored folder: up to MaxConvs, of different ids
StoredConversationLists ==
    { convs \in UNION { [1..k -> StoredConversations] : k \in 0..MaxConvs } :
        \A i, j \in DOMAIN convs : i # j => convs[i].id # convs[j].id }

\* records no version stored: a folder without conversations, a conversation
\* without messages
FolderWithoutConversations == [id |-> FolderIdOf(0), name |-> "conversations", isExpanded |-> TRUE]
ConversationWithoutMessages == [id |-> ConvIdOf(1), title |-> ImportedTitle]

\* what localStorage may hold when the page is loaded
StoredItems ==
    { NULL, GarbageItem, ObjectItem,
      StoredCollection(<< FolderWithoutConversations >>),
      StoredCollection(<< [InitialFolder EXCEPT
                             !.conversations = << ConversationWithoutMessages >>] >>) }
    \cup { StoredCollection(<< [InitialFolder EXCEPT !.conversations = convs] >>) :
             convs \in StoredConversationLists }

\* the page is about to be mounted
LoadInit ==
    /\ folders = <<InitialFolder>>
    /\ activeConversationId = NULL
    /\ isLoading = FALSE
    /\ aiSettings = NoSettings
    /\ now = 1
    /\ send = IdleSend
    /\ titleTasks = <<>>
    /\ sent = 0
    /\ result = NULL
    /\ parsedConversations = <<>>
    /\ pendingFiles = <<>>
    /\ selectedFolder = InitialFolder.id
    /\ download = NULL
    /\ vendorRequests = <<>>
    /\ routeResponse = NULL
    /\ storage \in StoredItems
    /\ isLoaded = FALSE
    /\ availableModels = <<>>
    /\ isLoadingModels = FALSE
    /\ modelFetches = <<>>
    /\ modelReturns = <<>>

\* the mount, then the handlers among the save effect and reloads of the page
LoadNext ==
    \/ LoadEffect
    \/ SaveEffect
    \/ Reload
    \/ isLoaded /\ Tick
    \/ isLoaded /\ handleNewConversation
    \/ \E convId \in ConvIdArgs : isLoaded /\ handleTogglePin(convId)
    \/ \E convId \in ConvIdArgs, tag \in Tags : isLoaded /\ handleAddTag(convId, tag)
    \/ \E convId \in ConvIdArgs : isLoaded /\ handleConversationDelete(convId)

LoadSpec == LoadInit /\ [][LoadNext]_vars

\* the steps that change a conversation in place (pin, tags, document, messages,
\* title) while time passes
MutatorNext ==
    \/ Tick
    \/ handleNewConversation
    \/ \E convId \in ConvIdArgs : handleConversationSelect(convId)
    \/ \E convId \in ConvIdArgs : handleTogglePin(convId)
    \/ \E convId \in ConvIdArgs, tag \in Tags : handleAddTag(convId, tag)
    \/ \E convId \in ConvIdArgs, tagId \in TagIds : handleRemoveTag(convId, tagId)
    \/ handleContentChange(EditedDoc)
    \/ \E content \in Contents : sent < MaxSends /\ handleSendMessage(content)
    \/ \E transport \in TransportOutcomes, provider \in ProviderOutcomes :
          ResolveCompletion(transport, provider)
    \/ \E transport \in TransportOutcomes, provider \in ProviderOutcomes :
          ResolveSummary(transport, provider)
    \/ \E i \in 1..MaxSends, transport \in TransportOutcomes,
          provider \in TitleProviderOutcomes : ResolveTitle(i, transport, provider)

MutatorSpec == Init /\ [][MutatorNext]_vars

\* exports of one and of two conversations, a user message each
SessionFiles ==
    { JsonFile("array", << ExternalConversation("x", ImportedTitle, <<UserNode>>) >>),
      JsonFile("array", << ExternalConversation("x", ImportedTitle, <<UserNode>>),
                           ExternalConversation("y", ImportedTitle, <<UserNode>>) >>) }

\* the import dialog is modal: the explorer and the chat panel are reached
\* while it is closed, and closing it resets the result
DialogClosed == result = NULL

\* the explorer and the import dialog: conversations and folders are created
\* and deleted, and exports are read and imported into the selected folder
DialogNext ==
    \/ /\ DialogClosed
       /\ \/ \E convId \in ConvIdArgs : handleConversationSelect(convId)
          \/ handleNewConversation
          \/ handleFolderCreate
          \/ \E folderId \in FolderIdArgs : handleFolderDelete(folderId)
          \/ \E convId \in ConvIdArgs : handleConversationDelete(convId)
    \/ \E file \in SessionFiles : handleFileSelect(file)
    \/ \E i \in 1..MaxReads : FileRead(i)
    \/ \E folderId \in FolderIdArgs : setSelectedFolder(folderId)
    \/ resetState
    \/ handleImportConfirm

DialogSpec == Init /\ [][DialogNext]_vars

\* a message is sent and its calls settle while conversations and folders are
\* created and deleted
DeletionNext ==
    \/ Tick
    \/ \E convId \in ConvIdArgs : handleConversationSelect(convId)
    \/ handleNewConversation
    \/ handleFolderCreate
    \/ \E folderId \in FolderIdArgs : handleFolderDelete(folderId)
    \/ \E convId \in ConvIdArgs : handleConversationDelete(convId)
    \/ \E content \in Contents : sent < MaxSends /\ handleSendMessage(content)
    \/ \E transport \in TransportOutcomes, provider \in ProviderOutcomes :
          ResolveCompletion(transport, provider)
    \/ \E transport \in TransportOutcomes, provider \in ProviderOutcomes :
          ResolveSummary(transport, provider)
    \/ \E i \in 1..MaxSends, transport \in TransportOutcomes,
          provider \in TitleProviderOutcomes : ResolveTitle(i, transport, provider)

DeletionSpec == Init /\ [][DeletionNext]_vars

\* the tag picker at work on created and imported conversations
TagNext ==
    \/ handleNewConversation
    \/ \E batch \in ImportBatches, folderId \in FolderIdArgs : handleImport(batch, folderId)
    \/ \E convId \in ConvIdArgs, tag \in TagPalette : handleAddTag(convId, tag)
    \/ \E convId \in ConvIdArgs, tagId \in TagPaletteIds : handleRemoveTag(convId, tagId)

TagSpec == Init /\ [][TagNext]_vars

\* the import dialog: a file is dropped, and read, parsed and imported
ImportInit ==
    /\ folders = <<InitialFolder>>
    /\ activeConversationId = NULL
    /\ isLoading = FALSE
    /\ aiSettings = NoSettings
    /\ now = 1
    /\ send = IdleSend
    /\ titleTasks = <<>>
    /\ sent = 0
    /\ result = NULL
    /\ parsedConversations = <<>>
    /\ pendingFiles \in { <<>> } \cup { <<file>> : file \in Files }
    /\ selectedFolder = InitialFolder.id
    /\ download = NULL
    /\ OutsideInit

ImportNext ==
    \/ \E file \in SecondFiles : handleFileSelect(file)
    \/ \E i \in 1..MaxReads : FileRead(i)
    \/ resetState
    \/ handleImportConfirm

ImportSpec == ImportInit /\ [][ImportNext]_vars

\* the export of a conversation: what the user typed (one line, two lines with
\* Shift+Enter, a line that reads like a heading of the export) and the reply
TypedContents == { <<"h", "i">>, <<"a", NewLine, "b">>, <<AiHeading>> }

ExportedMessages ==
    { [id |-> <<"msg", 1, "user">>, role |-> "user", content |-> content, timestamp |-> 1] :
         content \in TypedContents }
      \cup { [id |-> <<"msg", 1, "ai">>, role |-> "assistant", content |-> ReplyText,
              timestamp |-> 1] }

\* a conversation as handleSendMessage builds it: the title is the first
\* message, and the messages alternate from the user's
ExportedConversations ==
    { NewConversationRecord(ConvIdOf(1), NewConversationTitle, 1) }
      \cup { [NewConversationRecord(ConvIdOf(1), Truncate(messages[1].content), 1)
                 EXCEPT !.messages = messages] :
                messages \in { ms \in UNION { [1..n -> ExportedMessages] : n \in 1..MaxExportMsgs } :
                                  ms[1].role = "user" } }

ExportInit ==
    /\ \E conv \in ExportedConversations :
          folders = << [InitialFolder EXCEPT !.conversations = <<conv>>] >>
    /\ activeConversationId = NULL
    /\ isLoading = FALSE
    /\ aiSettings = NoSettings
    /\ now = 1
    /\ send = IdleSend
    /\ titleTasks = <<>>
    /\ sent = 0
    /\ result = NULL
    /\ parsedConversations = <<>>
    /\ pendingFiles = <<>>
    /\ selectedFolder = InitialFolder.id
    /\ download = NULL
    /\ OutsideInit

ExportNext ==
    \/ \E convId \in ConvIdArgs : handleConversationSelect(convId)
    \/ \E format \in ExportFormats, scope \in ExportScopes : handleExport(format, scope)

ExportSpec == ExportInit /\ [][ExportNext]_vars

\* the listing of one folder: the folder holds any list of conversations, with
\* repeated ids as import leaves them, and the user pins and unpins
DocIds == { "a", "b", "c" }

ListedConversations ==
    { [ImportedConversation(x) EXCEPT !.isPinned = p] : x \in DocIds, p \in BOOLEAN }

ListInit ==
    /\ \E n \in 0..MaxDocs : \E convs \in [1..n -> ListedConversations] :
          folders = << [InitialFolder EXCEPT !.conversations = convs] >>
    /\ activeConversationId = NULL
    /\ isLoading = FALSE
    /\ aiSettings = NoSettings
    /\ now = 1
    /\ send = IdleSend
    /\ titleTasks = <<>>
    /\ sent = 0
    /\ result = NULL
    /\ parsedConversations = <<>>
    /\ pendingFiles = <<>>
    /\ selectedFolder = InitialFolder.id
    /\ download = NULL
    /\ OutsideInit

ListNext == \E x \in DocIds : handleTogglePin(ImportedIdOf(x))

ListSpec == ListInit /\ [][ListNext]_vars

----------------------------------------------------------------------------
(* Vocabulary of the properties *)

\* the collection without the conversations of one id, folder by folder
ConversationsOutside(fs, convId) ==
    [i \in DOMAIN fs |-> WithoutConversation(fs[i].conversations, convId)]

\* the conversations of one id, in collection order
ConversationsOf(fs, convId) ==
    LET all == FlatConversations(fs)
    IN  SelectSeqBy(all, { c \in Range(all) : c.id = convId })

LastMessage(conv) == conv.messages[Len(conv.messages)]

\* the ids of the conversations a folder of the given id holds
ConversationIdsIn(fs, folderId) ==
    { c.id : c \in UNION { Range(f.conversations) : f \in { g \in Range(fs) : g.id = folderId } } }

ConversationFields ==
    { "id", "title", "messages", "documentContent", "tags", "isPinned",
      "createdAt", "updatedAt" }

\* from fs to fs2 nothing changed but the given fields of the conversations of
\* the given id: the folders, their names, their members and their order are
\* the same, and so is every conversation of another id
OnlyFieldsChange(fs, fs2, convId, fields) ==
    /\ Len(fs2) = Len(fs)
    /\ \A i \in DOMAIN fs :
          /\ fs2[i].id = fs[i].id
          /\ fs2[i].name = fs[i].name
          /\ fs2[i].isExpanded = fs[i].isExpanded
          /\ Len(fs2[i].conversations) = Len(fs[i].conversations)
          /\ \A j \in DOMAIN fs[i].conversations :
                LET before == fs[i].conversations[j]
                    after == fs2[i].conversations[j]
                IN  IF before.id # convId THEN after = before
                    ELSE \A f \in ConversationFields \ fields : after[f] = before[f]

TagIdsOf(conv) == { t.id : t \in Range(conv.tags) }

\* the entries of s at the given indices, in the order of s
SubSeqAt(s, idx) ==
    LET n == Cardinality(idx)
        at == CHOOSE g \in [1..n -> idx] : \A i, j \in 1..n : i < j => g[i] < g[j]
    IN  [k \in 1..n |-> s[at[k]]]

\* the entries of docs that are the first of their id, in the order of docs
FirstOfTheirId(docs) ==
    SubSeqAt(docs, { i \in DOMAIN docs : \A j \in 1..(i - 1) : docs[j].id # docs[i].id })

\* the nodes of a mapping that hold a user or assistant message with text
KeptNodes(mapping) ==
    { k \in DOMAIN mapping :
         /\ mapping[k].hasMessage
         /\ mapping[k].role \in { "user", "assistant" }
         /\ Trim(JoinParts(mapping[k].parts)) # <<>> }

\* an external conversation with every required field
WellFormed(conv) ==
    /\ conv.hasMapping
    /\ \A node \in Range(conv.mapping) : node.hasMessage => node.hasAuthor

MessageOfNode(node) ==
    [id |-> node.id, role |-> node.role, content |-> Trim(JoinParts(node.parts))]

\* the lines of a text
RECURSIVE Lines(_)
Lines(text) ==
    IF \A k \in DOMAIN text : text[k] # NewLine THEN <<text>>
    ELSE LET k == CHOOSE i \in DOMAIN text :
                     text[i] = NewLine /\ \A j \in 1..(i - 1) : text[j] # NewLine
         IN  <<SubSeq(text, 1, k - 1)>> \o Lines(SubSeq(text, k + 1, Len(text)))

\* the lines of a text that are the heading of a message block
RECURSIVE HeadingLines(_)
HeadingLines(lines) ==
    IF lines = <<>> THEN <<>>
    ELSE IF Head(lines) \in { <<UserHeading>>, <<AiHeading>> }
         THEN Head(lines) \o HeadingLines(Tail(lines))
         ELSE HeadingLines(Tail(lines))

CompletionSettles == send.pc = "awaitCompletion" /\ send'.pc # "awaitCompletion"
CompletionMerges == send.pc = "awaitCompletion" /\ send'.pc = "awaitSummary"
SummarySettles == send.pc = "awaitSummary" /\ send'.pc = "idle"

\* handleSendMessage runs to its first await: the completion is dispatched
SendDispatches == send.pc = "idle" /\ send'.pc = "awaitCompletion"
\* the summarization is dispatched
SummaryDispatches == send.pc # "awaitSummary" /\ send'.pc = "awaitSummary"

\* a title request is dispatched
TitleDispatches == Len(titleTasks') > Len(titleTasks)
\* the send is of a first message with AI settings configured
Qualifies(task) == Len(task.prior) = 0 /\ task.settings # NoSettings
\* a title request of the send is in flight
TitleInFlight(task) ==
    \E i \in DOMAIN titleTasks :
        titleTasks[i].convId = task.convId /\ titleTasks[i].message = task.content

\* the ids of the conversations of each folder, in order
Members(fs) ==
    [i \in DOMAIN fs |->
        [j \in DOMAIN fs[i].conversations |-> fs[i].conversations[j].id]]

\* the vendor call behind a route failed
ProviderFailed(settings, provider) == settings # NoSettings /\ provider = "error"

----------------------------------------------------------------------------
(* C1: when the completion of a send settles, the assistant message is added
   to the conversation whose id the send captured at dispatch, whatever
   conversation is active by then, and every conversation of another id
   (the active one included) is left as it was. *)
C1_CompletionGoesToCapturedConversation ==
    [][CompletionSettles =>
        /\ ConversationsOutside(folders', send.convId)
              = ConversationsOutside(folders, send.convId)
        /\ \A c \in Range(ConversationsOf(folders', send.convId)) :
              /\ c.messages # <<>>
              /\ LastMessage(c).role = "assistant"
              /\ LastMessage(c).id[2] = now
        /\ Len(ConversationsOf(folders', send.convId))
              = Len(ConversationsOf(folders, send.convId))]_vars

\* the completion was merged into A while another existing conversation B is active
C1_Witness ==
    /\ send.pc = "awaitSummary"
    /\ activeConversationId # send.convId
    /\ activeConversationId \in ConversationIds(folders)
    /\ \E c \in Range(AllConversations) :
          /\ c.id = send.convId
          /\ c.messages = send.finalMessages
          /\ LastMessage(c).role = "assistant"
    /\ \E b \in Range(AllConversations) :
          b.id = activeConversationId /\ b.messages # send.finalMessages

(* C2: the merge of a successful completion appends: each target
   conversation's messages after the merge are its messages before the merge
   followed by one assistant message. *)
C2_CompletionMergeAppends ==
    [][CompletionMerges =>
        \A i \in DOMAIN folders : \A j \in DOMAIN folders[i].conversations :
            LET before == folders[i].conversations[j]
                after == folders'[i].conversations[j]
            IN  before.id = send.convId =>
                   /\ Len(after.messages) = Len(before.messages) + 1
                   /\ SubSeq(after.messages, 1, Len(before.messages)) = before.messages
                   /\ LastMessage(after).role = "assistant"]_vars

(* C3: the summary and the generated title of a send are merged under the id
   captured at dispatch: when either call settles, every conversation of
   another id keeps its documentContent and title (and everything else). *)
C3_SummaryAndTitleGoToCapturedConversation ==
    [][/\ SummarySettles =>
            ConversationsOutside(folders', send.convId)
               = ConversationsOutside(folders, send.convId)
       /\ Len(titleTasks') < Len(titleTasks) =>
            \E i \in DOMAIN titleTasks :
               ConversationsOutside(folders', titleTasks[i].convId)
                  = ConversationsOutside(folders, titleTasks[i].convId)]_vars

\* a summary and a title were merged into a conversation that is not the
\* active one, and the active one holds neither
C3_Witness ==
    /\ \E c \in Range(AllConversations) :
          /\ c.id # activeConversationId
          /\ c.documentContent = RemoteSummary
          /\ c.title = AiTitle
    /\ \E b \in Range(AllConversations) :
          /\ b.id = activeConversationId
          /\ b.documentContent # RemoteSummary
          /\ b.title # AiTitle

(* C4 as claimed: when the completion fails, by a transport failure or by a
   provider failure, the assistant turn appended to the target conversation
   is the fixed apology and no summarization is dispatched for the turn. *)
C4_AnyCompletionFailureFallsBack ==
    [][\A transport \in TransportOutcomes, provider \in ProviderOutcomes :
        (/\ ResolveCompletion(transport, provider)
         /\ transport = "fail" \/ ProviderFailed(send.settings, provider))
        => /\ send'.pc # "awaitSummary"
           /\ \A c \in Range(ConversationsOf(folders', send.convId)) :
                 /\ c.messages # <<>>
                 /\ LastMessage(c).content = ApologyText]_vars

(* C4 as amended: when the completion call fails in transport (the request to
   the chat route rejects, or its body cannot be decoded) the assistant turn
   appended to the target conversation is the fixed apology, no summarization
   is dispatched for the turn and the invocation ends; a provider failure is
   answered by the route with status 200 and the error text as the message,
   which is appended as the assistant turn and summarized like a reply. *)
C4_TransportFailureFallsBack ==
    [][\A transport \in TransportOutcomes, provider \in ProviderOutcomes :
        ResolveCompletion(transport, provider) =>
            IF transport = "fail"
            THEN /\ send'.pc = "idle"
                 /\ ~isLoading'
                 /\ \A i \in DOMAIN folders : \A j \in DOMAIN folders[i].conversations :
                       folders[i].conversations[j].id = send.convId =>
                          folders'[i].conversations[j].messages
                             = Append(folders[i].conversations[j].messages,
                                      [id |-> <<"msg", now, "error">>, role |-> "assistant",
                                       content |-> ApologyText, timestamp |-> now])
            ELSE /\ send'.pc = "awaitSummary"
                 /\ \A c \in Range(ConversationsOf(folders', send.convId)) :
                       LastMessage(c).content =
                          IF ProviderFailed(send.settings, provider) THEN ApiErrorText
                          ELSE IF send.settings = NoSettings THEN MockText
                          ELSE ReplyText]_vars

\* the invocation ended on the error fallback: the target conversation ends
\* with the user message and the apology, and nothing is in flight
C4_Witness ==
    /\ send.pc = "idle"
    /\ ~isLoading
    /\ sent > 0
    /\ \E c \in Range(AllConversations) :
          /\ Len(c.messages) >= 2
          /\ LastMessage(c).content = ApologyText
          /\ c.messages[Len(c.messages) - 1].role = "user"
          /\ c.documentContent \in { EmptyDoc, ImportedDoc }

(* C5: when the summarization fails, by a transport failure or by a provider
   failure, the step that settles it leaves every conversation's
   documentContent as it was. *)
C5_FailedSummaryKeepsDocument ==
    [][\A transport \in TransportOutcomes, provider \in ProviderOutcomes :
        (/\ ResolveSummary(transport, provider)
         /\ transport = "fail" \/ ProviderFailed(send.settings, provider))
        => \A i \in DOMAIN folders : \A j \in DOMAIN folders[i].conversations :
              folders'[i].conversations[j].documentContent
                 = folders[i].conversations[j].documentContent]_vars

(* C6: in every reachable state the folder collection holds at least one
   folder. *)
C6_AtLeastOneFolder == Len(folders) >= 1

(* C7: in every reachable state no two conversations of the collection share
   an id, in the same folder or across folders. *)
C7_ConversationIdsUnique ==
    \A i, j \in DOMAIN AllConversations :
        i # j => AllConversations[i].id # AllConversations[j].id

(* C8: a new-conversation request whose id is already used by a conversation
   anywhere in the collection leaves the collection as it was. *)
C8_UsedIdCreationRejected ==
    [][(handleNewConversation /\ ConvIdOf(now) \in ConversationIds(folders))
          => folders' = folders]_vars

(* C9: moveConversation(id, target) on an existing target folder leaves the
   collection unchanged when the id is not found or the conversation is
   already in the target; otherwise the conversation leaves its folder, is
   put at the head of the target, and nothing else moves. *)
C9_MoveTransfersToHead ==
    [][\A convId \in ConvIdArgs, targetFolderId \in FolderIdArgs :
        (handleConversationMove(convId, targetFolderId)
            /\ targetFolderId \in FolderIds(folders))
        => IF \/ convId \notin ConversationIds(folders)
              \/ convId \in ConversationIdsIn(folders, targetFolderId)
           THEN folders' = folders
           ELSE /\ Len(folders') = Len(folders)
                /\ \A i \in DOMAIN folders :
                      folders'[i].conversations =
                         IF folders[i].id = targetFolderId
                         THEN ConversationsOf(folders, convId) \o folders[i].conversations
                         ELSE WithoutConversation(folders[i].conversations, convId)]_vars

(* C10: renameFolder, deleteFolder, deleteConversation, moveConversation, the
   pin toggle, addTag and removeTag, called with a folder id, conversation id
   or target folder id that nothing has, leave the collection as it was. *)
C10_AbsentIdIsNoOp ==
    [][/\ \A folderId \in FolderIdArgs, newName \in FolderNames :
             (handleFolderRename(folderId, newName) /\ folderId \notin FolderIds(folders))
                => folders' = folders
       /\ \A folderId \in FolderIdArgs :
             (handleFolderDelete(folderId) /\ folderId \notin FolderIds(folders))
                => folders' = folders
       /\ \A convId \in ConvIdArgs :
             (handleConversationDelete(convId) /\ convId \notin ConversationIds(folders))
                => folders' = folders
       /\ \A convId \in ConvIdArgs, folderId \in FolderIdArgs :
             (/\ handleConversationMove(convId, folderId)
              /\ convId \notin ConversationIds(folders) \/ folderId \notin FolderIds(folders))
                => folders' = folders
       /\ \A convId \in ConvIdArgs :
             (handleTogglePin(convId) /\ convId \notin ConversationIds(folders))
                => folders' = folders
       /\ \A convId \in ConvIdArgs, tag \in Tags :
             (handleAddTag(convId, tag) /\ convId \notin ConversationIds(folders))
                => folders' = folders
       /\ \A convId \in ConvIdArgs, tagId \in TagIds :
             (handleRemoveTag(convId, tagId) /\ convId \notin ConversationIds(folders))
                => folders' = folders]_vars

(* C11: every step that changes a conversation's messages or documentContent
   refreshes the conversation's updatedAt, that is, sets it to the time of the
   step: the optimistic append of the user message, the merge of the assistant
   message, the apology append of the error fallback, the merge of the summary
   and a manual edit of the document. *)
C11_ContentStepsRefreshUpdatedAt ==
    [][/\ \A content \in Contents :
             handleSendMessage(content) =>
                \A c \in Range(ConversationsOf(folders', activeConversationId')) :
                   c.updatedAt = now
       /\ \A transport \in TransportOutcomes, provider \in ProviderOutcomes :
             ResolveCompletion(transport, provider) =>
                \A c \in Range(ConversationsOf(folders', send.convId)) : c.updatedAt = now
       /\ \A provider \in ProviderOutcomes :
             ResolveSummary("ok", provider) =>
                \A c \in Range(ConversationsOf(folders', send.convId)) : c.updatedAt = now
       /\ handleContentChange(EditedDoc) =>
             \A c \in Range(ConversationsOf(folders', activeConversationId)) :
                c.updatedAt = now]_vars

(* C12: pinning or unpinning, adding a tag, removing a tag and the merge of
   the generated title each refresh the target conversation's updatedAt: a
   conversation such a step changes has the time of the step as updatedAt. *)
C12_MetadataStepsRefreshUpdatedAt ==
    [][(\/ \E convId \in ConvIdArgs : handleTogglePin(convId)
        \/ \E convId \in ConvIdArgs, tag \in Tags : handleAddTag(convId, tag)
        \/ \E convId \in ConvIdArgs, tagId \in TagIds : handleRemoveTag(convId, tagId)
        \/ \E i \in DOMAIN titleTasks, transport \in TransportOutcomes,
              provider \in TitleProviderOutcomes : ResolveTitle(i, transport, provider))
       => \A i \in DOMAIN folders : \A j \in DOMAIN folders[i].conversations :
             folders'[i].conversations[j] # folders[i].conversations[j]
                => folders'[i].conversations[j].updatedAt = now]_vars

(* C13 as claimed: the pin toggle, addTag, removeTag, the append of a message,
   the setting of the document content and the setting of the title each
   change only their own field, and updatedAt, of the targeted conversation;
   its other fields, every other conversation and every folder's name,
   members and order stay as they were. *)
C13_MutatorsChangeOnlyTheirField ==
    [][/\ \A convId \in ConvIdArgs :
             handleTogglePin(convId) =>
                OnlyFieldsChange(folders, folders', convId, {"isPinned", "updatedAt"})
       /\ \A convId \in ConvIdArgs, tag \in Tags :
             handleAddTag(convId, tag) =>
                OnlyFieldsChange(folders, folders', convId, {"tags", "updatedAt"})
       /\ \A convId \in ConvIdArgs, tagId \in TagIds :
             handleRemoveTag(convId, tagId) =>
                OnlyFieldsChange(folders, folders', convId, {"tags", "updatedAt"})
       /\ \A content \in Contents :
             (handleSendMessage(content) /\ activeConversationId # NULL) =>
                OnlyFieldsChange(folders, folders', activeConversationId,
                                 {"messages", "updatedAt"})
       /\ \A transport \in TransportOutcomes, provider \in ProviderOutcomes :
             ResolveCompletion(transport, provider) =>
                OnlyFieldsChange(folders, folders', send.convId, {"messages", "updatedAt"})
       /\ handleContentChange(EditedDoc) =>
             OnlyFieldsChange(folders, folders', activeConversationId,
                              {"documentContent", "updatedAt"})
       /\ \A transport \in TransportOutcomes, provider \in ProviderOutcomes :
             ResolveSummary(transport, provider) =>
                OnlyFieldsChange(folders, folders', send.convId,
                                 {"documentContent", "updatedAt"})
       /\ \A i \in DOMAIN titleTasks, transport \in TransportOutcomes,
             provider \in TitleProviderOutcomes :
             ResolveTitle(i, transport, provider) =>
                OnlyFieldsChange(folders, folders', titleTasks[i].convId,
                                 {"title", "updatedAt"})]_vars

(* C13 as amended: as claimed, except that the append of the user message
   also sets the title of a conversation of the targeted id whose title is
   still the placeholder of a new conversation, to the message content cut to
   30 characters and an ellipsis; a title that is not the placeholder is
   left as it was. *)
C13_MutatorsChangeOnlyTheirFieldOrPlaceholderTitle ==
    [][/\ \A convId \in ConvIdArgs :
             handleTogglePin(convId) =>
                OnlyFieldsChange(folders, folders', convId, {"isPinned", "updatedAt"})
       /\ \A convId \in ConvIdArgs, tag \in Tags :
             handleAddTag(convId, tag) =>
                OnlyFieldsChange(folders, folders', convId, {"tags", "updatedAt"})
       /\ \A convId \in ConvIdArgs, tagId \in TagIds :
             handleRemoveTag(convId, tagId) =>
                OnlyFieldsChange(folders, folders', convId, {"tags", "updatedAt"})
       /\ \A content \in Contents :
             (handleSendMessage(content) /\ activeConversationId # NULL) =>
                /\ OnlyFieldsChange(folders, folders', activeConversationId,
                                    {"messages", "title", "updatedAt"})
                /\ \A i \in DOMAIN folders : \A j \in DOMAIN folders[i].conversations :
                      LET before == folders[i].conversations[j]
                      IN  before.id = activeConversationId =>
                             folders'[i].conversations[j].title =
                                IF before.title = NewConversationTitle
                                THEN Truncate(content) ELSE before.title
       /\ \A transport \in TransportOutcomes, provider \in ProviderOutcomes :
             ResolveCompletion(transport, provider) =>
                OnlyFieldsChange(folders, folders', send.convId, {"messages", "updatedAt"})
       /\ handleContentChange(EditedDoc) =>
             OnlyFieldsChange(folders, folders', activeConversationId,
                              {"documentContent", "updatedAt"})
       /\ \A transport \in TransportOutcomes, provider \in ProviderOutcomes :
             ResolveSummary(transport, provider) =>
                OnlyFieldsChange(folders, folders', send.convId,
                                 {"documentContent", "updatedAt"})
       /\ \A i \in DOMAIN titleTasks, transport \in TransportOutcomes,
             provider \in TitleProviderOutcomes :
             ResolveTitle(i, transport, provider) =>
                OnlyFieldsChange(folders, folders', titleTasks[i].convId,
                                 {"title", "updatedAt"})]_vars

\* every mutator has acted on one conversation (pinned, tagged, messages,
\* summary, generated title) next to a conversation that is as it was created
C13_Witness ==
    \E c, b \in Range(AllConversations) :
        /\ c.id # b.id
        /\ c.isPinned
        /\ c.tags # <<>>
        /\ Len(c.messages) >= 2
        /\ c.documentContent = RemoteSummary
        /\ c.title = AiTitle
        /\ b = NewConversationRecord(b.id, NewConversationTitle, b.createdAt)

(* C14: attach is idempotent and detach is a no-op on absence: in every state
   reached by addTag and removeTag calls no conversation's tag list holds two
   entries of one id; attaching a tag whose id the targeted conversations
   already hold leaves the collection as it was; removing an id they do not
   hold leaves the collection as it was. *)
C14_AttachIdempotentDetachNoOp ==
    /\ [](\A c \in Range(AllConversations) :
             \A i, j \in DOMAIN c.tags : i # j => c.tags[i].id # c.tags[j].id)
    /\ [][/\ \A convId \in ConvIdArgs, tag \in TagPalette :
                (/\ handleAddTag(convId, tag)
                 /\ \A c \in Range(ConversationsOf(folders, convId)) : tag.id \in TagIdsOf(c))
                => folders' = folders
          /\ \A convId \in ConvIdArgs, tagId \in TagPaletteIds :
                (/\ handleRemoveTag(convId, tagId)
                 /\ \A c \in Range(ConversationsOf(folders, convId)) : tagId \notin TagIdsOf(c))
                => folders' = folders]_vars

\* a conversation holds one entry of each tag id, in the order of the attaches
C14_Witness ==
    \E c \in Range(AllConversations) :
        /\ Len(c.tags) = 2
        /\ c.tags[1].id = "tag-2"
        /\ c.tags[2].id = "tag-1"
        /\ c.tags[2].name = "other"

(* C15: for the documents of any folder, getSortedDocs returns the list
   without the later entries of a repeated id, with the pinned entries first
   and the unpinned ones after them, each group in the order of the input;
   [a (unpinned), b (pinned), c (unpinned)] gives [b, a, c]. *)
C15_SortedDocsPinnedFirstStableDeduplicated ==
    \A f \in Range(folders) :
        LET docs == Documents(f)
            unique == FirstOfTheirId(docs)
        IN  getSortedDocs(docs) =
               SubSeqAt(unique, { i \in DOMAIN unique : unique[i].isPinned })
                  \o SubSeqAt(unique, { i \in DOMAIN unique : ~unique[i].isPinned })

\* the folder lists a (unpinned), b (pinned), possibly more of a and b, and
\* c (unpinned), and the listing is [b, a, c]
C15_Witness ==
    \E f \in Range(folders) :
        LET docs == Documents(f)
        IN  /\ Len(docs) >= 3
            /\ docs[1].id = ImportedIdOf("a") /\ ~docs[1].isPinned
            /\ docs[2].id = ImportedIdOf("b") /\ docs[2].isPinned
            /\ docs[Len(docs)].id = ImportedIdOf("c") /\ ~docs[Len(docs)].isPinned
            /\ getSortedDocs(docs) = <<docs[2], docs[1], docs[Len(docs)]>>

(* C16: the background title request overwrites the title of the target
   conversation only when the call succeeds with a non-empty title; when the
   request fails in transport, the route answers with a status that is not
   OK, or the title is empty, the step leaves every conversation as it was. *)
C16_TitleOverwrittenOnlyOnSuccess ==
    [][\A i \in DOMAIN titleTasks, transport \in TransportOutcomes,
          provider \in TitleProviderOutcomes :
        ResolveTitle(i, transport, provider) =>
            IF transport = "ok" /\ provider = "ok"
            THEN /\ OnlyFieldsChange(folders, folders', titleTasks[i].convId, {"title"})
                 /\ \A c \in Range(ConversationsOf(folders', titleTasks[i].convId)) :
                       c.title = AiTitle
            ELSE folders' = folders]_vars

\* the title request of a first message has settled and the conversation still
\* has the title derived from the message
C16_Witness ==
    /\ sent > 0
    /\ send.pc = "idle"
    /\ titleTasks = <<>>
    /\ aiSettings # NoSettings
    /\ \E c \in Range(AllConversations) :
          /\ Len(c.messages) = 2
          /\ LastMessage(c).content = ReplyText
          /\ c.documentContent = RemoteSummary
          /\ \E content \in Contents : c.title = Truncate(content)

(* C17: for an export whose conversations are all well-formed, the parser
   keeps exactly the nodes that hold a message of role user or assistant
   whose joined and trimmed content is not empty, emits a conversation, in
   the order of the export, for exactly the conversations with such a node,
   and importedCount is the number of emitted conversations. *)
C17_ParserKeepsUserAndAssistantText ==
    [][\A i \in 1..MaxReads :
        (/\ FileRead(i)
         /\ pendingFiles[i].kind = "array"
         /\ \A conv \in Range(pendingFiles[i].data) : WellFormed(conv))
        => LET data == pendingFiles[i].data
               emitted == SubSeqAt(data, { k \in DOMAIN data : KeptNodes(data[k].mapping) # {} })
               parsed == parsedConversations'
           IN  /\ Len(parsed) = Len(emitted)
               /\ \A k \in DOMAIN emitted :
                     LET mapping == emitted[k].mapping
                     IN  /\ parsed[k].id = ImportedIdOf(emitted[k].id)
                         /\ Len(parsed[k].messages) = Cardinality(KeptNodes(mapping))
                         /\ { [id |-> m.id, role |-> m.role, content |-> m.content] :
                                 m \in Range(parsed[k].messages) }
                               = { MessageOfNode(mapping[n]) : n \in KeptNodes(mapping) }
               /\ result'.success
               /\ result'.imported = Len(emitted)]_vars

\* an export of one conversation was read: one conversation of three messages,
\* in the order of their times, one imported and none skipped
C17_Witness ==
    /\ result # NULL
    /\ result.success
    /\ result.imported = 1
    /\ result.skipped = 0
    /\ Len(parsedConversations) = 1
    /\ Len(parsedConversations[1].messages) = 3
    /\ parsedConversations[1].messages[1].role = "assistant"
    /\ parsedConversations[1].messages[3].role = "user"

(* C18: when an export holds a malformed conversation and a well-formed one,
   the result of the read holds exactly the conversations of the well-formed
   ones, and its errors list holds an error for the malformed one. *)
C18_MalformedConversationIsRecorded ==
    [][\A i \in 1..MaxReads :
        (/\ FileRead(i)
         /\ pendingFiles[i].kind = "array"
         /\ \E conv \in Range(pendingFiles[i].data) : ~WellFormed(conv)
         /\ \E conv \in Range(pendingFiles[i].data) :
               WellFormed(conv) /\ KeptNodes(conv.mapping) # {})
        => LET data == pendingFiles[i].data
               emitted == SubSeqAt(data, { k \in DOMAIN data :
                              WellFormed(data[k]) /\ KeptNodes(data[k].mapping) # {} })
           IN  /\ Len(parsedConversations') = Len(emitted)
               /\ \A k \in DOMAIN emitted :
                     parsedConversations'[k].id = ImportedIdOf(emitted[k].id)
               /\ result'.errors # <<>>]_vars

(* C19: the read of a file whose JSON is not an array ends in a result that is
   not successful, with importedCount 0 and an error message; it parses no
   conversation and leaves the folder collection as it was; and while the
   result is a failure no step changes the folder collection: the import can
   not be confirmed. *)
C19_NotAnArrayFailsTheImport ==
    [][/\ \A i \in 1..MaxReads :
             (FileRead(i) /\ pendingFiles[i].kind = "value")
             => /\ ~result'.success
                /\ result'.imported = 0
                /\ result'.errors # <<>>
                /\ parsedConversations' = parsedConversations
                /\ folders' = folders
       /\ (result # NULL /\ ~result.success) => folders' = folders]_vars

\* the read of a file that is not an array has failed while the conversations
\* of an export read before it are still held by the dialog
C19_Witness ==
    /\ result # NULL
    /\ ~result.success
    /\ result.errors = <<"notChatGPTExport">>
    /\ parsedConversations # <<>>
    /\ folders = <<InitialFolder>>

(* C20: the export of the active conversation in Markdown mode is a document
   whose first line is the title of the conversation as a top-level heading
   and which holds one block for each message, in the order of the messages,
   each under the heading of the message's role. *)
C20_MarkdownHasTitleAndOneBlockPerMessage ==
    [][(handleExport("markdown", "current")
           /\ FindConversation(folders, activeConversationId) # <<>>)
       => LET conv == FindConversation(folders, activeConversationId)[1]
              lines == Lines(download'.content)
          IN  /\ lines[1] = <<"# ">> \o conv.title
              /\ HeadingLines(lines) =
                    [k \in DOMAIN conv.messages |->
                        IF conv.messages[k].role = "user" THEN UserHeading
                        ELSE AiHeading]]_vars

(* C21: in every reachable state the active-conversation reference is null or
   the id of a conversation of the collection, through the deletion of the
   active conversation, the deletion of its folder and a confirmed import. *)
C21_ActiveReferenceIsNullOrExists ==
    \/ activeConversationId = NULL
    \/ activeConversationId \in ConversationIds(folders)

(* C22 as claimed: within one send the user message is in the store when the
   completion is dispatched, the completion has resolved when the
   summarization is dispatched, and no summarization is dispatched for a turn
   whose completion failed, in transport or at the provider. *)
C22_AppendThenCompletionThenSummaryOnSuccess ==
    [][/\ SendDispatches =>
             \A c \in Range(ConversationsOf(folders', send'.convId)) :
                 c.messages # <<>> /\ LastMessage(c) = send'.userMessage
       /\ SummaryDispatches =>
             /\ send.pc = "awaitCompletion"
             /\ send'.finalMessages # <<>>
             /\ send'.finalMessages[Len(send'.finalMessages)].role = "assistant"
       /\ \A transport \in TransportOutcomes, provider \in ProviderOutcomes :
             (/\ ResolveCompletion(transport, provider)
              /\ transport = "fail" \/ ProviderFailed(send.settings, provider))
             => ~SummaryDispatches]_vars

(* C22 as amended: within one send the user message is in the store when the
   completion is dispatched, the completion has resolved when the
   summarization is dispatched, and no summarization is dispatched for a turn
   whose completion call failed in transport; a completion whose provider
   failed is answered with status 200 by the chat route, and its
   summarization is dispatched like that of any reply. *)
C22_AppendThenCompletionThenSummaryUnlessTransportFails ==
    [][/\ SendDispatches =>
             \A c \in Range(ConversationsOf(folders', send'.convId)) :
                 c.messages # <<>> /\ LastMessage(c) = send'.userMessage
       /\ SummaryDispatches =>
             /\ send.pc = "awaitCompletion"
             /\ send'.finalMessages # <<>>
             /\ send'.finalMessages[Len(send'.finalMessages)].role = "assistant"
       /\ \A transport \in TransportOutcomes, provider \in ProviderOutcomes :
             ResolveCompletion(transport, provider)
             => (SummaryDispatches <=> transport = "ok")]_vars

\* the summarization of a turn is in flight whose completion failed at the
\* provider: the user message and the error text are in the store
C22_Witness ==
    /\ send.pc = "awaitSummary"
    /\ send.settings # NoSettings
    /\ \E c \in Range(ConversationsOf(folders, send.convId)) :
          /\ Len(c.messages) >= 2
          /\ c.messages[Len(c.messages) - 1] = send.userMessage
          /\ LastMessage(c).content = ApiErrorText
          /\ LastMessage(c).role = "assistant"

(* C23: title generation is independent of the completion and of the
   summarization: when the completion of a qualifying first message fails and
   the invocation ends, the title request of the send is in flight or is
   dispatched in that step, as it is after a completion that succeeds; and no
   title request is dispatched by the step in which the summarization
   settles, that is, none waits for it. *)
C23_TitleDispatchIndependentOfCompletionAndSummary ==
    [][/\ (CompletionSettles /\ send'.pc = "idle" /\ Qualifies(send))
             => (TitleInFlight(send) \/ TitleDispatches)
       /\ TitleDispatches => ~SummarySettles]_vars

(* C24: a send qualifies for a title only if AI settings are configured and
   no conversation of the target id held a message when it was dispatched; a
   title request is dispatched only by a send that qualifies, for the
   conversation and the message of that send; and the settling of a title
   request changes nothing but the title of the conversations of its send.
   So a send to a conversation with messages, or in demo mode, has no title
   request and changes no title through title generation. *)
C24_TitleRequestOnlyForFirstMessageWithSettings ==
    [][/\ SendDispatches =>
             (Qualifies(send') =>
                 /\ aiSettings # NoSettings
                 /\ \A c \in Range(ConversationsOf(folders, send'.convId)) :
                       c.messages = <<>>)
       /\ TitleDispatches =>
             /\ Qualifies(send)
             /\ titleTasks' = Append(titleTasks, [convId |-> send.convId,
                                                  message |-> send.content])
       /\ \A i \in DOMAIN titleTasks, transport \in TransportOutcomes,
             provider \in TitleProviderOutcomes :
             ResolveTitle(i, transport, provider) =>
                 OnlyFieldsChange(folders, folders', titleTasks[i].convId, { "title" })]_vars

\* a send with AI settings configured to a conversation that held a message
\* has ended: no title request is in flight and the title is the old one
C24_Witness ==
    /\ send.pc = "idle"
    /\ sent > 0
    /\ aiSettings # NoSettings
    /\ titleTasks = <<>>
    /\ \E c \in Range(AllConversations) :
          /\ Len(c.messages) = 3
          /\ c.messages[1].content = <<"q">>
          /\ c.messages[3].content = ReplyText
          /\ c.title = ImportedTitle
          /\ c.documentContent = RemoteSummary

(* C25: when the completion of a send settles, every conversation of the
   captured id that is still in the collection gets the assistant message of
   the turn, whatever conversation is active: on success its messages end
   with the user message of the send and one assistant message holding the
   completion text, on a transport failure they are the messages before
   followed by one assistant message holding the apology; and no conversation
   is added or removed by the step. *)
C25_SettledCompletionAddsOneAssistantMessage ==
    [][\A transport \in TransportOutcomes, provider \in ProviderOutcomes :
        ResolveCompletion(transport, provider) =>
            LET before == ConversationsOf(folders, send.convId)
                after == ConversationsOf(folders', send.convId)
            IN  /\ Len(after) = Len(before)
                /\ \A k \in DOMAIN before :
                      LET n == Len(after[k].messages)
                      IN  /\ n >= 1
                          /\ after[k].messages[n].role = "assistant"
                          /\ IF transport = "fail"
                             THEN /\ after[k].messages[n].content = ApologyText
                                  /\ SubSeq(after[k].messages, 1, n - 1) = before[k].messages
                             ELSE /\ after[k].messages[n].content
                                        = ChatRoutePOST(send.settings, provider).message
                                  /\ n >= 2
                                  /\ after[k].messages[n - 1] = send.userMessage]_vars

\* the completion of a send failed while another existing conversation was
\* active: the apology is in the conversation of the send
C25_Witness ==
    /\ send.pc = "idle"
    /\ sent > 0
    /\ activeConversationId \in ConversationIds(folders)
    /\ \E c \in Range(AllConversations) :
          /\ c.id # activeConversationId
          /\ Len(c.messages) >= 2
          /\ c.messages[Len(c.messages) - 1].content \in Contents
          /\ LastMessage(c).content = ApologyText
          /\ LastMessage(c).role = "assistant"

(* C26: provided every external call settles, every send returns to idle: the
   loading flag is set exactly while an invocation is suspended, the step
   that ends an invocation clears it, on the success path, on the error
   fallback and whatever the summarization answered, and a set flag is
   eventually cleared. *)
C26_EverySendReturnsToIdle ==
    /\ [](isLoading <=> send.pc # "idle")
    /\ [][(send.pc # "idle" /\ send'.pc = "idle") => ~isLoading']_vars
    /\ (isLoading ~> (~isLoading /\ send.pc = "idle"))

\* a send has returned to idle after a summarization the provider failed
C26_Witness ==
    /\ send.pc = "idle"
    /\ ~isLoading
    /\ sent > 0
    /\ \E c \in Range(AllConversations) :
          /\ c.documentContent = FallbackSummaryEmpty
          /\ LastMessage(c).role = "assistant"

(* C27: moveConversation never changes which conversations exist: for any
   conversation id and any target folder id, of a folder of the collection or
   not, every id is held by as many conversations after the call as before. *)
C27_MoveKeepsTheConversations ==
    [][\A convId \in ConvIdArgs, targetFolderId \in FolderIdArgs :
        handleConversationMove(convId, targetFolderId) =>
            \A id \in ConvIdArgs :
                Len(ConversationsOf(folders', id)) = Len(ConversationsOf(folders, id))]_vars

(* C28: a conversation deleted, directly or with its folder, while a send to
   it is in flight is never re-created: the completion merge, the error
   fallback, the summary merge and the title merge leave the folders and the
   ids they hold as they were, and leave the whole collection as it was when
   no conversation has the captured id. *)
C28_MergesNeverRecreateADeletedConversation ==
    [][/\ \A transport \in TransportOutcomes, provider \in ProviderOutcomes :
             (ResolveCompletion(transport, provider) \/ ResolveSummary(transport, provider))
             => /\ Members(folders') = Members(folders)
                /\ send.convId \notin ConversationIds(folders) => folders' = folders
       /\ \A i \in DOMAIN titleTasks, transport \in TransportOutcomes,
             provider \in TitleProviderOutcomes :
             ResolveTitle(i, transport, provider)
             => /\ Members(folders') = Members(folders)
                /\ titleTasks[i].convId \notin ConversationIds(folders)
                      => folders' = folders]_vars

\* the completion of a send has settled after the folder that held its
\* conversation was deleted: no conversation has the captured id
C28_Witness ==
    /\ send.pc = "awaitSummary"
    /\ send.finalMessages # <<>>
    /\ send.convId \notin ConversationIds(folders)
    /\ InitialFolder.id \notin FolderIds(folders)

(* C29: at most one send is in flight at any time: a send starts only while
   the loading flag is clear and no invocation is suspended, it sets the
   flag, the flag stays set while the invocation awaits its completion or its
   summarization, and only the step that ends the invocation clears it. *)
C29_OneSendInFlight ==
    /\ [](send.pc # "idle" => isLoading)
    /\ [][/\ sent' # sent =>
                /\ ~isLoading
                /\ send.pc = "idle"
                /\ isLoading'
                /\ send'.pc = "awaitCompletion"
                /\ sent' = sent + 1
          /\ (isLoading /\ ~isLoading') => (send.pc # "idle" /\ send'.pc = "idle")
          /\ (send.pc # "idle" /\ send'.pc # "idle") =>
                (send'.convId = send.convId /\ send'.userMessage = send.userMessage)]_vars

\* a second send is in flight, dispatched after the first one ended: the
\* snapshot of the second holds the turn of the first
C29_Witness ==
    /\ sent = 2
    /\ isLoading
    /\ send.pc = "awaitSummary"
    /\ Len(send.prior) = 2
    /\ Len(send.finalMessages) = 4

(* C30: a confirmed import leaves every parsed conversation in the
   collection, at the head of the selected target folder, in parsed order and
   ahead of the conversations the folder held, and makes the first imported
   conversation the active one. *)
C30_ImportLandsAtHeadOfSelectedFolder ==
    [][handleImportConfirm =>
        LET parsed == parsedConversations
            n == Len(parsed)
        IN  /\ selectedFolder \in FolderIds(folders')
            /\ \A i \in DOMAIN folders' :
                  folders'[i].id = selectedFolder =>
                    /\ Len(folders'[i].conversations) = n + Len(folders[i].conversations)
                    /\ SubSeq(folders'[i].conversations, 1, n) = parsed
                    /\ SubSeq(folders'[i].conversations, n + 1,
                              Len(folders'[i].conversations)) = folders[i].conversations
            /\ \A k \in 1..n : FindConversation(folders', parsed[k].id) # <<>>
            /\ activeConversationId' = parsed[1].id]_vars

(* C31: documentContent is last-writer-wins.  A summary response that
   arrives puts its summary into every conversation of the captured id,
   whatever text the conversation held, an edited one included; a manual edit
   puts the typed text into every conversation of the id that is active when
   the edit is made and changes no other conversation; with no active
   conversation there is no edit. *)
C31_DocumentContentIsLastWriterWins ==
    /\ [](activeConversationId = NULL => ~ENABLED handleContentChange(EditedDoc))
    /\ [][/\ \A provider \in ProviderOutcomes :
                ResolveSummary("ok", provider) =>
                  /\ Members(folders') = Members(folders)
                  /\ \A c \in Range(FlatConversations(folders')) :
                        c.id = send.convId =>
                          c.documentContent
                             = SummarizeRoutePOST(send.settings, provider).summary
          /\ handleContentChange(EditedDoc) =>
                /\ Members(folders') = Members(folders)
                /\ \A i \in DOMAIN folders' :
                      \A j \in DOMAIN folders'[i].conversations :
                        LET c == folders'[i].conversations[j]
                        IN  IF c.id = activeConversationId
                            THEN c.documentContent = EditedDoc
                            ELSE c = folders[i].conversations[j]]_vars

\* the summary of a send is awaited while its conversation holds a text the
\* user typed after the send began
C31_Witness ==
    /\ send.pc = "awaitSummary"
    /\ \E c \in Range(AllConversations) :
          /\ c.id = send.convId
          /\ c.documentContent = EditedDoc
          /\ Len(c.messages) = Len(send.finalMessages)

\* the last request a route issued to a vendor
LastVendorRequest(requests) == requests[Len(requests)]

\* short is the last Len(short) elements of long, in their order
IsTail(short, long) ==
    /\ Len(short) <= Len(long)
    /\ \A i \in 1..Len(short) : short[i] = long[Len(long) - Len(short) + i]

(* C32 as stated: the caller of a capability sends it at most the 20 (chat)
   or 30 (summarization) most recent messages: the request handleSendMessage
   posts to /api/chat holds at most 20 messages, the one it posts to
   /api/summarize at most 30. *)
C32_ClientPostsACappedList ==
    /\ send.pc = "awaitCompletion" => Len(ChatRequestBody(send).messages) <= ChatMaxMessages
    /\ send.pc = "awaitSummary" =>
          Len(SummarizeRequestBody(send).messages) <= SummarizeMaxMessages

(* C32 amended: handleSendMessage posts the whole transcript, the new
   message included, to the route; the route is what caps the list: the
   request it issues to the vendor holds the 20 (chat) or 30 (summarization)
   most recent messages of the list it received, in their order, and the
   whole list when that is not longer. *)
C32_RouteCapsWhatTheVendorGets ==
    /\ [](\A i \in DOMAIN vendorRequests :
            /\ vendorRequests[i].route = "chat" =>
                  Len(vendorRequests[i].messages) <= ChatMaxMessages
            /\ vendorRequests[i].route = "summarize" =>
                  Len(vendorRequests[i].messages) <= SummarizeMaxMessages)
    /\ [][/\ SendDispatches =>
                \E c \in Range(FlatConversations(folders')) :
                   /\ c.id = send'.convId
                   /\ ChatRequestBody(send').messages = WireMessages(c.messages)
          /\ SummaryDispatches =>
                \E c \in Range(FlatConversations(folders')) :
                   /\ c.id = send'.convId
                   /\ SummarizeRequestBody(send').messages = WireMessages(c.messages)
          /\ (/\ Len(vendorRequests') > Len(vendorRequests)
              /\ LastVendorRequest(vendorRequests').route = "chat") =>
                LET received == ChatRequestBody(send).messages
                    asked == LastVendorRequest(vendorRequests').messages
                IN  /\ IsTail(asked, received)
                    /\ Len(asked) = IF Len(received) > ChatMaxMessages
                                    THEN ChatMaxMessages ELSE Len(received)
          /\ (/\ Len(vendorRequests') > Len(vendorRequests)
              /\ LastVendorRequest(vendorRequests').route = "summarize") =>
                LET received == SummarizeRequestBody(send).messages
                    asked == LastVendorRequest(vendorRequests').messages
                IN  /\ IsTail(asked, received)
                    /\ Len(asked) = IF Len(received) > SummarizeMaxMessages
                                    THEN SummarizeMaxMessages ELSE Len(received)]_vars

\* both routes received a list longer than their cap and asked the vendor
\* with a list of exactly the cap
C32_Witness ==
    /\ send.pc = "awaitSummary"
    /\ Len(send.prior) + 1 > ChatMaxMessages
    /\ Len(send.finalMessages) > SummarizeMaxMessages
    /\ Len(vendorRequests) = 2
    /\ vendorRequests[1].route = "chat"
    /\ Len(vendorRequests[1].messages) = ChatMaxMessages
    /\ vendorRequests[2].route = "summarize"
    /\ Len(vendorRequests[2].messages) = SummarizeMaxMessages

\* a route answers the request in flight
RouteAnswers(route) ==
    /\ routeResponse' # routeResponse
    /\ routeResponse'.route = route

\* the replies a keyword of the text selects
KeywordReplies(text) ==
    { WorryReply : k \in { kw \in { KeywordWorry, KeywordTrouble } : Includes(text, kw) } }
    \cup { WorkReply : k \in { kw \in { KeywordWork, KeywordPriority } : Includes(text, kw) } }
    \cup { OrganizeReply :
              k \in { kw \in { KeywordOrganize, KeywordSummary } : Includes(text, kw) } }

(* C33: without AI settings no request is ever issued to a vendor; the chat
   route then answers one of the five fixed replies, or, when the last user
   message holds a keyword, one of the replies its keywords select, and the
   summarize route answers the summary it generates locally; both answers
   are marked as demo. *)
C33_DemoModeMakesNoVendorCall ==
    /\ [](aiSettings = NoSettings => vendorRequests = <<>>)
    /\ [][/\ (RouteAnswers("chat") /\ send.settings = NoSettings) =>
                /\ vendorRequests' = vendorRequests
                /\ routeResponse'.isDemo
                /\ routeResponse'.ok
                /\ IF KeywordReplies(send.content) = {}
                   THEN routeResponse'.message \in CannedReplies
                   ELSE routeResponse'.message \in KeywordReplies(send.content)
          /\ (RouteAnswers("summarize") /\ send.settings = NoSettings) =>
                /\ vendorRequests' = vendorRequests
                /\ routeResponse'.isDemo
                /\ routeResponse'.ok
                /\ routeResponse'.summary = FallbackSummaryDemo]_vars

\* without settings both routes have answered, the chat route with the reply
\* of a keyword, and no vendor was asked
C33_Witness ==
    /\ aiSettings = NoSettings
    /\ send.pc = "awaitSummary"
    /\ routeResponse # NULL
    /\ routeResponse.route = "summarize"
    /\ routeResponse.isDemo
    /\ send.finalMessages[Len(send.finalMessages)].content = WorkReply
    /\ vendorRequests = <<>>

\* the title of a conversation synthesized for a first message
DraftTitle(content) ==
    IF Len(content) <= TitleLimit THEN content
    ELSE [i \in 1..(TitleLimit + Len(Ellipsis)) |->
             IF i <= TitleLimit THEN content[i] ELSE Ellipsis[i - TitleLimit]]

(* C34: a send with no active conversation creates exactly one conversation,
   at the head of the first folder and ahead of the conversations the folder
   held; its title is the text when that has at most 30 characters and
   otherwise its first 30 characters and an ellipsis; it is the active
   conversation and holds the user message, all of it while the completion
   is still awaited. *)
C34_FirstSendCreatesOneConversation ==
    [][\A content \in DraftContents :
         (handleSendMessage(content) /\ activeConversationId = NULL) =>
            /\ TotalConversations(folders') = TotalConversations(folders) + 1
            /\ Len(folders'[1].conversations) = Len(folders[1].conversations) + 1
            /\ Tail(folders'[1].conversations) = folders[1].conversations
            /\ LET newConv == folders'[1].conversations[1]
               IN  /\ newConv.id = activeConversationId'
                   /\ newConv.title = DraftTitle(content)
                   /\ Len(newConv.messages) = 1
                   /\ newConv.messages[1].role = "user"
                   /\ newConv.messages[1].content = content
            /\ send'.pc = "awaitCompletion"]_vars

(* C35: every title the title route returns holds no single quote, no
   double quote, no corner bracket and no newline, does not begin with
   whitespace, and is at most 20 characters long. *)
C35_ReturnedTitleIsSanitizedAndCapped ==
    (routeResponse # NULL /\ routeResponse.route = "title" /\ routeResponse.ok) =>
        LET title == routeResponse.title
        IN  /\ \A i \in DOMAIN title : title[i] \notin StrippedChars
            /\ title # <<>> => title[1] \notin Whitespace
            /\ Len(title) <= AiTitleLimit

\* the vendor's title began with a blank, held a character to strip and was
\* longer than 20 characters: the route returned 20 characters
C35_Witness ==
    /\ routeResponse # NULL
    /\ routeResponse.route = "title"
    /\ routeResponse.ok
    /\ Len(routeResponse.raw) > AiTitleLimit
    /\ routeResponse.raw[1] = Blank
    /\ \E i \in DOMAIN routeResponse.raw : routeResponse.raw[i] \in StrippedChars
    /\ Len(routeResponse.title) = AiTitleLimit

\* the load effect restores what is stored
Restores ==
    /\ LoadEffect
    /\ storage # NULL
    /\ ~RestoreThrows(storage)

\* the fields of a stored conversation the restore does not leave as stored
RestoredFields == { "tags", "isPinned", "createdAt", "updatedAt", "messages" }

(* C36: the load effect restores the stored collection: the folders and
   their conversations in the stored order; createdAt, updatedAt and the
   timestamp of every message as the dates their stored strings denote; tags
   and isPinned as stored, and as [] and false for a record without them;
   every other field as stored.  The active conversation is then one that no
   conversation was updated after, if there is a conversation at all.  What
   the save effect stores is restored to the collection it was. *)
C36_LoadRestoresTheStoredCollection ==
    /\ [](isLoaded => Restore(Stringify(folders)) = folders)
    /\ [][Restores =>
            LET items == storage.items
            IN  /\ Len(folders') = Len(items)
                /\ \A i \in DOMAIN items :
                      /\ DOMAIN folders'[i] = DOMAIN items[i]
                      /\ \A k \in DOMAIN items[i] \ { "conversations" } :
                            folders'[i][k] = items[i][k]
                      /\ Len(folders'[i].conversations) = Len(items[i].conversations)
                      /\ \A j \in DOMAIN items[i].conversations :
                            LET saved == items[i].conversations[j]
                                conv == folders'[i].conversations[j]
                            IN  /\ DOMAIN conv = DOMAIN saved \cup { "tags", "isPinned" }
                                /\ \A k \in DOMAIN saved \ RestoredFields : conv[k] = saved[k]
                                /\ conv.tags = IF "tags" \in DOMAIN saved
                                               THEN saved.tags ELSE <<>>
                                /\ conv.isPinned = IF "isPinned" \in DOMAIN saved
                                                   THEN saved.isPinned ELSE FALSE
                                /\ IsoString(conv.createdAt) = saved.createdAt
                                /\ IsoString(conv.updatedAt) = saved.updatedAt
                                /\ Len(conv.messages) = Len(saved.messages)
                                /\ \A m \in DOMAIN saved.messages :
                                      /\ DOMAIN conv.messages[m] = DOMAIN saved.messages[m]
                                      /\ IsoString(conv.messages[m].timestamp)
                                            = saved.messages[m].timestamp
                                      /\ \A k \in DOMAIN saved.messages[m] \ { "timestamp" } :
                                            conv.messages[m][k] = saved.messages[m][k]
                /\ IF TotalConversations(folders') = 0
                   THEN activeConversationId' = activeConversationId
                   ELSE \E c \in Range(FlatConversations(folders')) :
                           /\ c.id = activeConversationId'
                           /\ \A d \in Range(FlatConversations(folders')) :
                                 d.updatedAt <= c.updatedAt]_vars

\* two conversations were restored, the first one from a record without tags
\* and pin, the second one updated later: the second one is active
C36_Witness ==
    /\ isLoaded
    /\ storage # NULL
    /\ storage.kind = "array"
    /\ folders = Restore(storage.items)
    /\ Len(folders) = 1
    /\ Len(folders[1].conversations) = 2
    /\ "tags" \notin DOMAIN storage.items[1].conversations[1]
    /\ folders[1].conversations[1].tags = <<>>
    /\ folders[1].conversations[1].isPinned = FALSE
    /\ folders[1].conversations[2].isPinned
    /\ folders[1].conversations[1].updatedAt < folders[1].conversations[2].updatedAt
    /\ activeConversationId = folders[1].conversations[2].id

\* the load effect finds a record it can not parse or restore
FailsToRestore ==
    /\ LoadEffect
    /\ storage # NULL
    /\ RestoreThrows(storage)

(* C37: when the stored record can not be parsed or restored, the load
   effect ends as it does without a stored record: the collection is the
   default single empty folder, no conversation is active, the mount is over,
   and a new conversation can be created in the loaded page. *)
C37_UnrestorableRecordIsNoPersistedState ==
    /\ [][FailsToRestore =>
            /\ folders' = <<InitialFolder>>
            /\ activeConversationId' = NULL
            /\ isLoaded'
            /\ UNCHANGED storage]_vars
    /\ []((isLoaded /\ folders = <<InitialFolder>>) => ENABLED handleNewConversation)

\* after a record whose conversation has no messages failed to restore, the
\* user has created a conversation in the default folder
C37_Witness ==
    /\ isLoaded
    /\ storage # NULL
    /\ storage.kind = "array"
    /\ RestoreThrows(storage)
    /\ Len(folders) = 1
    /\ folders[1].id = InitialFolder.id
    /\ Len(folders[1].conversations) = 1
    /\ activeConversationId = folders[1].conversations[1].id

----------------------------------------------------------------------------
(* useAISettings: the list of the models of a provider.                    *)

\* type AIProvider
Providers == { "openai", "anthropic", "gemini" }

\* DEFAULT_MODELS[provider] || [], each model by its id
DEFAULT_MODELS(provider) ==
    CASE provider = "openai" -> <<"gpt-4o", "gpt-4o-mini", "gpt-4-turbo", "gpt-3.5-turbo">>
      [] provider = "anthropic" -> <<"claude-3-5-sonnet-20241022", "claude-3-5-haiku-20241022",
                                     "claude-3-opus-20240229">>
      [] provider = "gemini" -> <<"gemini-2.0-flash", "gemini-1.5-pro", "gemini-1.5-flash">>
      [] OTHER -> <<>>

\* the lists /api/models may answer: none, one model, or the models of a provider
RemoteModelLists ==
    { <<>>, <<"remote-model">> } \cup { DEFAULT_MODELS(provider) : provider \in Providers }

\* what the request of fetchModels comes to: fetch throws, the response is
\* not OK, its body is no JSON, its body has no models, or it has a list
ModelResponses ==
    { [kind |-> kind, models |-> <<>>] : kind \in { "throws", "notOk", "badJson", "noModels" } }
    \cup { [kind |-> "ok", models |-> models] : models \in RemoteModelLists }

\* the slip of a fetchModels that returns what it was answered, or nothing
FetchedModelsAsAnswered(provider, response) ==
    IF response.kind = "ok" THEN response.models ELSE <<>>

\* the value fetchModels returns and sets as availableModels
FetchedModels(provider, response) ==
    IF response.kind = "ok" /\ Len(response.models) > 0
    THEN response.models
    ELSE DEFAULT_MODELS(provider)

\* s without its element i
WithoutIndex(s, i) == SubSeq(s, 1, i - 1) \o SubSeq(s, i + 1, Len(s))

\* fetchModels up to its await
fetchModels(provider) ==
    /\ Len(modelFetches) + Len(modelReturns) < MaxFetches
    /\ isLoadingModels' = TRUE
    /\ modelFetches' = Append(modelFetches, provider)
    /\ UNCHANGED <<folders, activeConversationId, isLoading, aiSettings, now, send,
                   titleTasks, sent, dialogVars, routeVars, persistVars,
                   availableModels, modelReturns>>

\* fetchModels from its await to its return, finally included
ReturnModels(i, response) ==
    /\ i \in DOMAIN modelFetches
    /\ LET models == FetchedModels(modelFetches[i], response)
       IN  /\ availableModels' = models
           /\ modelReturns' = Append(modelReturns,
                                     [provider |-> modelFetches[i], response |-> response,
                                      models |-> models])
    /\ modelFetches' = WithoutIndex(modelFetches, i)
    /\ isLoadingModels' = FALSE
    /\ UNCHANGED <<folders, activeConversationId, isLoading, aiSettings, now, send,
                   titleTasks, sent, dialogVars, routeVars, persistVars>>

\* clearSettings
clearSettings ==
    /\ aiSettings' = NoSettings
    /\ availableModels' = <<>>
    /\ UNCHANGED <<folders, activeConversationId, isLoading, now, send, titleTasks, sent,
                   dialogVars, routeVars, persistVars, isLoadingModels, modelFetches,
                   modelReturns>>

\* the hook after its mount effect: the defaults of the stored provider, or
\* no models without stored settings
ModelInit ==
    /\ folders = <<InitialFolder>>
    /\ activeConversationId = NULL
    /\ isLoading = FALSE
    /\ aiSettings \in { NoSettings, "configured" }
    /\ now = 1
    /\ send = IdleSend
    /\ titleTasks = <<>>
    /\ sent = 0
    /\ result = NULL
    /\ parsedConversations = <<>>
    /\ pendingFiles = <<>>
    /\ selectedFolder = InitialFolder.id
    /\ download = NULL
    /\ vendorRequests = <<>>
    /\ routeResponse = NULL
    /\ storage = NULL
    /\ isLoaded = TRUE
    /\ IF aiSettings = NoSettings
       THEN availableModels = <<>>
       ELSE \E provider \in Providers : availableModels = DEFAULT_MODELS(provider)
    /\ isLoadingModels = FALSE
    /\ modelFetches = <<>>
    /\ modelReturns = <<>>

ModelNext ==
    \/ \E provider \in Providers : fetchModels(provider)
    \/ \E i \in 1..MaxFetches, response \in ModelResponses : ReturnModels(i, response)
    \/ clearSettings

ModelSpec == ModelInit /\ [][ModelNext]_vars

\* the requests the claim is about: thrown, not OK, or answered an empty list
FailedResponses ==
    { response \in ModelResponses : response.kind # "ok" \/ response.models = <<>> }

(* C38: whenever the models request throws, is answered with a response
   that is not OK or with an empty list (or with a body that is no JSON or
   has no models), fetchModels returns the default list of the provider it
   was called for, which is not empty, and sets it as the available models;
   every return of fetchModels, failed or not, leaves the loading flag
   cleared. *)
C38_FetchModelsFallsBackToTheDefaults ==
    /\ [](\A i \in DOMAIN modelReturns :
             modelReturns[i].response \in FailedResponses =>
                /\ modelReturns[i].models = DEFAULT_MODELS(modelReturns[i].provider)
                /\ modelReturns[i].models # <<>>)
    /\ [][\A i \in DOMAIN modelFetches, response \in ModelResponses :
             ReturnModels(i, response) =>
                /\ ~isLoadingModels'
                /\ Len(modelReturns') = Len(modelReturns) + 1
                /\ response \in FailedResponses =>
                      availableModels' = DEFAULT_MODELS(modelFetches[i])]_vars

\* three calls have returned: one that threw, one answered not OK and one
\* answered an empty list, for two providers; the flag is cleared
C38_Witness ==
    /\ ~isLoadingModels
    /\ modelFetches = <<>>
    /\ \E i, j, k \in DOMAIN modelReturns :
          /\ modelReturns[i].response.kind = "throws"
          /\ modelReturns[j].response.kind = "notOk"
          /\ modelReturns[k].response = [kind |-> "ok", models |-> <<>>]
          /\ modelReturns[i].provider # modelReturns[j].provider
          /\ modelReturns[k].models = DEFAULT_MODELS(modelReturns[k].provider)
          /\ availableModels = modelReturns[Len(modelReturns)].models

====
